---- MODULE Spec2Model ----
(***************************************************************************)
(* svfs: a Swift container mounted as a filesystem.  The model covers the  *)
(* directory node (Create, Mkdir, Symlink, Lookup, ReadDirAll, Remove,     *)
(* Rename), the object node (open) and the object handle (Write, Release,  *)
(* moveToSegment, truncate), over a backend made of a data container and a *)
(* segments container, the directory cache and the change cache.           *)
(*                                                                         *)
(* A path is a sequence of symbols: a name is one symbol, "/" is one       *)
(* symbol, so d.path + name is d.path \o <<name>> and HasSuffix(p, "/") is *)
(* "the last symbol of p is /".                                            *)
(***************************************************************************)
EXTENDS Integers, Sequences, FiniteSets, TLC

VARIABLES
    store,          \* data container: [path -> stored object]
    segs,           \* segments container: [path -> body]
    heap,           \* the nodes ever built, by id (a node's id is its address)
    DirectoryCache, \* [<<container, path>> -> [parent, children: [name -> node id]]]
    ChangeCache,    \* [<<container, path>> -> node id]
    handles,        \* the object handles ever opened, by id
    rd,             \* ReadDirAll calls past their backend listing, per thread
    known,          \* node ids the kernel holds (returned by an operation)
    now,            \* the latest value time.Now().Unix() returned
    fails,          \* backend failures injected so far
    Encryption,     \* configuration
    ExtraAttr,      \* configuration
    last,           \* the operation that just returned, with what it returned
    ops,            \* requests the model still follows
    made,           \* the directories Mkdir made, by parent path and name, while
                    \* nothing removed or replaced the name: the node, whether
                    \* the name was new to the container, and whether a
                    \* ReadDirAll installed the parent's listing since
    renamed         \* the last request if it was a successful Rename of a plain
                    \* object: the node, the backend object it moved, and the
                    \* same of the Rename it reversed

vars == <<store, segs, heap, DirectoryCache, ChangeCache, handles, rd, known,
          now, fails, Encryption, ExtraAttr, last, ops, made, renamed>>

----------------------------------------------------------------------------
\* Bounds of the model.

MaxHandles == 3
MaxFail == 1
MaxChunk == 3
MaxBytes == 4
MaxClock == 1
MaxNodes == 6
MaxOps == 3
MaxFailOps == 2
MaxHandleOps == 4
MaxTasks == 5
MaxAttrOps == 5

\* Configuration of the program.
SegmentSize == 2
ListerConcurrency == 2

Names == {"a", "b"}
Threads == {1}

\* Content types (part_000:17-22) and header names (part_001:14-21).
DirContentType == "application/directory"
ObjContentType == "application/octet-stream"
LinkContentType == "application/link"

DataContainer == "c"
SegmentsContainer == "cs"

Nil == 0
NoPath == <<"?">>
NoHeader == <<>>

----------------------------------------------------------------------------
\* Strings as sequences of symbols.

HasSuffixSlash(p) == Len(p) > 0 /\ p[Len(p)] = "/"

IsPrefix(p, q) == Len(p) <= Len(q) /\ SubSeq(q, 1, Len(p)) = p

TrimPrefix(q, p) == IF IsPrefix(p, q) THEN SubSeq(q, Len(p) + 1, Len(q)) ELSE q

TrimSuffixSlash(p) == IF HasSuffixSlash(p) THEN SubSeq(p, 1, Len(p) - 1) ELSE p

\* The one symbol a short name is made of ("" when there is none).
ShortName(p) == IF Len(p) = 1 THEN p[1] ELSE IF p = <<>> THEN "" ELSE "?"

\* Byte order of the symbols: "/" sorts before digits, digits before letters.
Rank(s) == CASE s = "/" -> 0
             [] s = "a" -> 11
             [] s = "b" -> 12
             [] OTHER -> 5

RECURSIVE PathLess(_, _)
PathLess(p, q) ==
    IF p = <<>> THEN q # <<>>
    ELSE IF q = <<>> THEN FALSE
    ELSE IF p[1] = q[1] THEN PathLess(Tail(p), Tail(q))
    ELSE Rank(p[1]) < Rank(q[1])

RECURSIVE SortPaths(_)
SortPaths(S) ==
    IF S = {} THEN <<>>
    ELSE LET m == CHOOSE p \in S : \A q \in S \ {p} : PathLess(p, q)
         IN  <<m>> \o SortPaths(S \ {m})

\* Finite maps.
Put(f, k, v) == [x \in DOMAIN f \cup {k} |-> IF x = k THEN v ELSE f[x]]
Del(f, k) == [x \in DOMAIN f \ {k} |-> f[x]]
Has(f, k) == k \in DOMAIN f
EmptyMap == [x \in {} |-> 0]

----------------------------------------------------------------------------
\* The backend: the calls of the object-store client the core uses.
\* A stored object: content type, body, manifest header, symlink header.

StoredObject(ct, body, manifest) == [ct |-> ct, body |-> body, manifest |-> manifest]

\* ObjectPutBytes(container, path, nil, contentType)
ObjectPutBytes(st, path, ct) == Put(st, path, StoredObject(ct, <<>>, NoHeader))

\* ObjectDelete(container, path)
ObjectDelete(st, path) == Del(st, path)

\* ObjectMove / ManifestCopy inside the data container: the object with its
\* content and headers, under the new name.
ObjectMove(st, from, to) == Del(Put(st, to, st[from]), from)
ManifestCopy(st, from, to) == Put(st, to, st[from])

\* The first path component of q under prefix p, with its "/" when it has
\* one: the name a delimiter listing rolls q up to.
RollUp(p, q) ==
    LET rest == TrimPrefix(q, p)
    IN  IF Len(rest) >= 2 /\ rest[2] = "/" THEN p \o <<rest[1], "/">>
        ELSE q

\* ObjectsAll(container, {Delimiter: '/', Prefix: p}): the objects right under
\* p, and one pseudo-directory entry per common prefix, in name order.
ListEntry(st, p, n) ==
    IF n \in DOMAIN st /\ ~HasSuffixSlash(n)
    THEN [name |-> n, ct |-> st[n].ct, pseudo |-> FALSE,
          large |-> st[n].manifest # NoHeader]
    ELSE [name |-> n, ct |-> "", pseudo |-> TRUE, large |-> FALSE]

ObjectsAll(st, p) ==
    LET under == {q \in DOMAIN st : IsPrefix(p, q) /\ q # p}
        names == {RollUp(p, q) : q \in under}
        order == SortPaths(names)
    IN  [i \in 1..Len(order) |-> ListEntry(st, p, order[i])]

\* The segment paths under a manifest header "<container>/<prefix>".
HeaderPrefix(h) == IF Len(h) >= 2 THEN SubSeq(h, 3, Len(h)) ELSE <<>>
SegmentsUnder(sg, prefix) == {q \in DOMAIN sg : IsPrefix(prefix, q)}

\* deleteSegments(container, manifestHeader): every segment under the prefix.
deleteSegments(sg, h) == [q \in DOMAIN sg \ SegmentsUnder(sg, HeaderPrefix(h)) |-> sg[q]]

\* SegmentPathRegex ^([^/]+)/(.*)$
SegmentPathRegexMatch(h) ==
    \E i \in 2..Len(h) : h[i] = "/" /\ \A j \in 1..(i - 1) : h[j] # "/"

----------------------------------------------------------------------------
\* The directory cache and the change cache.

Key(container, path) == <<container, path>>

CachePeek(dc, path) == Has(dc, Key(DataContainer, path))

CacheGet(dc, path, name) ==
    IF Has(dc, Key(DataContainer, path)) /\ Has(dc[Key(DataContainer, path)].children, name)
    THEN dc[Key(DataContainer, path)].children[name]
    ELSE Nil

CacheAddAll(dc, path, parent, children) ==
    Put(dc, Key(DataContainer, path), [parent |-> parent, children |-> children])

CacheSet(dc, path, name, node) ==
    LET k == Key(DataContainer, path)
        old == IF Has(dc, k) THEN dc[k] ELSE [parent |-> Nil, children |-> EmptyMap]
    IN  Put(dc, k, [parent |-> old.parent, children |-> Put(old.children, name, node)])

CacheDelete(dc, path, name) ==
    LET k == Key(DataContainer, path)
    IN  IF Has(dc, k)
        THEN Put(dc, k, [parent |-> dc[k].parent, children |-> Del(dc[k].children, name)])
        ELSE dc

CacheDeleteAll(dc, path) == Del(dc, Key(DataContainer, path))

ChangeExist(cc, path) == Has(cc, Key(DataContainer, path))
ChangeAdd(cc, path, node) == Put(cc, Key(DataContainer, path), node)
ChangeRemove(cc, path) == Del(cc, Key(DataContainer, path))
ChangeGet(cc, path) == cc[Key(DataContainer, path)]

----------------------------------------------------------------------------
\* Nodes.  A node's fields (Directory: part_000:34-42, Object: part_001:26-37);
\* soName is so.Name (NoPath while so is nil), bytes is so.Bytes, manifest is
\* sh[ManifestHeader], m is the mutex (TRUE: locked).

Node(kind, name, path, soName) ==
    [kind |-> kind, name |-> name, path |-> path, soName |-> soName, bytes |-> 0,
     manifest |-> NoHeader, segmented |-> FALSE, writing |-> FALSE, m |-> FALSE]

RootNode == Node("dir", "", <<>>, NoPath)
RootId == 1

DT(kind) == CASE kind = "dir" -> "DT_Dir" [] kind = "obj" -> "DT_File" [] OTHER -> "DT_Link"

\* Export (part_000:97-102, part_001:54-59)
Export(node) == [name |-> node.name, type |-> DT(node.kind)]

\* Classification helpers of a listing entry o under the directory path p.
isSymlink(o, p) == o.ct = LinkContentType /\ ~o.pseudo
isDirectory(o, p) == o.ct = DirContentType /\ ~o.pseudo /\ o.name # p
isPseudoDirectory(o, p) == o.pseudo /\ HasSuffixSlash(o.name) /\ o.name # p
isLargeObject(o) == o.large

\* The lister's enrichment of a node: a HEAD of its object; the headers are
\* kept on the node and a manifest header marks it segmented.  A failed HEAD
\* leaves the node as built.
Enrich(hp, st, id, ok) ==
    LET n == hp[id]
    IN  IF ok /\ n.kind = "obj" /\ Has(st, n.path)
        THEN [hp EXCEPT ![id].manifest = st[n.path].manifest,
                        ![id].segmented = st[n.path].manifest # NoHeader]
        ELSE hp

\* One turn of the loop of ReadDirAll (part_000:136-204) on the entry o; acc
\* holds heap, dirs, direntries, children and the tasks given to the lister.
Emit(acc, id) ==
    [acc EXCEPT !.direntries = Append(@, Export(acc.heap[id])),
                !.children = Put(@, acc.heap[id].name, id)]

Finish(acc, node, extra) ==
    LET id == Len(acc.heap) + 1
        a1 == [acc EXCEPT !.heap = Append(@, node)]
    IN  IF extra
        THEN [a1 EXCEPT !.tasks = Append(@, id)]
        ELSE Emit(a1, id)

\* A turn of the loop that materializes every pseudo-directory.
FillOne_KeepsPseudo(acc, d, o, cc, extra) ==
    LET path == o.name
        fileName == ShortName(TrimSuffixSlash(TrimPrefix(o.name, d.path)))
        id == Len(acc.heap) + 1
    IN  IF isSymlink(o, d.path)
        THEN [acc EXCEPT !.heap = Append(@, Node("link", fileName, path, o.name)),
                         !.tasks = Append(@, id)]
        ELSE IF isDirectory(o, d.path)
        THEN Finish([acc EXCEPT !.dirs = @ \cup {fileName}],
                    Node("dir", fileName,
                         IF HasSuffixSlash(o.name) THEN path ELSE path \o <<"/">>, o.name),
                    extra)
        ELSE IF isPseudoDirectory(o, d.path)
        THEN Finish([acc EXCEPT !.dirs = @ \cup {fileName}],
                    Node("dir", fileName, path, o.name), extra)
        ELSE IF ~HasSuffixSlash(o.name)
        THEN IF ChangeExist(cc, path)
             THEN Emit(acc, ChangeGet(cc, path))
             ELSE Finish(acc, Node("obj", fileName, path, o.name),
                         isLargeObject(o) \/ extra)
        ELSE acc

FillOne(acc, d, o, cc, extra) ==
    LET path == o.name
        fileName == ShortName(TrimSuffixSlash(TrimPrefix(o.name, d.path)))
        id == Len(acc.heap) + 1
    IN  IF isSymlink(o, d.path)
        THEN [acc EXCEPT !.heap = Append(@, Node("link", fileName, path, o.name)),
                         !.tasks = Append(@, id)]
        ELSE IF isDirectory(o, d.path)
        THEN Finish([acc EXCEPT !.dirs = @ \cup {fileName}],
                    Node("dir", fileName,
                         IF HasSuffixSlash(o.name) THEN path ELSE path \o <<"/">>, o.name),
                    extra)
        ELSE IF isPseudoDirectory(o, d.path) /\ fileName \notin acc.dirs
        THEN Finish([acc EXCEPT !.dirs = @ \cup {fileName}],
                    Node("dir", fileName, path, o.name), extra)
        ELSE IF ~HasSuffixSlash(o.name)
        THEN IF ChangeExist(cc, path)
             THEN Emit(acc, ChangeGet(cc, path))
             ELSE Finish(acc, Node("obj", fileName, path, o.name),
                         isLargeObject(o) \/ extra)
        ELSE acc

RECURSIVE FillFrom(_, _, _, _, _, _)
FillFrom(acc, d, objects, i, cc, extra) ==
    IF i > Len(objects) THEN acc
    ELSE FillFrom(FillOne(acc, d, objects[i], cc, extra), d, objects, i + 1, cc, extra)

Fill(hp, d, objects, cc, extra) ==
    FillFrom([heap |-> hp, dirs |-> {}, direntries |-> <<>>, children |-> EmptyMap,
              tasks |-> <<>>], d, objects, 1, cc, extra)

\* The drain loop (part_000:207-217) receiving the task id.
Receive(r, hp, id) ==
    [r EXCEPT !.direntries = Append(@, Export(hp[id])),
              !.children = Put(@, hp[id].name, id)]

----------------------------------------------------------------------------
\* What an operation returned.  d and name are the receiver and the name it
\* was asked about, node and h the node and the handle it returned, entries
\* the direntries of a ReadDirAll, listed whether it called ObjectsAll.

\* A rejected request (ENOTSUP) is recorded without its arguments.
Ret(op, res, d, name, node, h, entries, listed) ==
    IF res = "ENOTSUP"
    THEN [op |-> op, res |-> res, d |-> Nil, name |-> "", node |-> Nil, h |-> Nil,
          entries |-> <<>>, listed |-> FALSE, d2 |-> Nil, name2 |-> ""]
    ELSE [op |-> op, res |-> res, d |-> d, name |-> name, node |-> node, h |-> h,
          entries |-> entries, listed |-> listed, d2 |-> Nil, name2 |-> ""]

\* What a Rename to (d2, name2) returned.
RetMove(res, d, name, node, d2, name2) ==
    IF res = "ENOTSUP" THEN Ret("Rename", res, d, name, node, Nil, <<>>, FALSE)
    ELSE [Ret("Rename", res, d, name, node, Nil, <<>>, FALSE) EXCEPT !.d2 = d2, !.name2 = name2]

\* The same with the number of backend calls the request issued.
Called(ret, n) == [calls |-> n] @@ ret

Alive == last.res # "fatal"

\* The kernel sends a request: ops is the number of requests the model still
\* follows.
Request == Alive /\ ops > 0 /\ ops' = ops - 1

\* A backend call either succeeds or fails; the model injects at most MaxFail
\* failures.  f is the call that fails (0: none).
MayFail(f) == f = 0 \/ fails < MaxFail
Count(f) == IF f = 0 THEN fails ELSE fails + 1

\* The record of made and renamed.
NoRename == [node |-> Nil, obj |-> <<>>, back |-> FALSE, orig |-> <<>>]
Forget(m, path, name) == Del(m, <<path, name>>)
ForgetDir(m, path) == [k \in {x \in DOMAIN m : x[1] # path} |-> m[k]]
Installed(m, path) ==
    [k \in DOMAIN m |-> IF k[1] = path THEN [m[k] EXCEPT !.installed = TRUE] ELSE m[k]]

Dirs == {d \in known : heap[d].kind = "dir"}
Objects == {o \in known : heap[o].kind = "obj"}

\* Open flags: the access mode, O_APPEND, O_CREAT.
Flags(acc, append, create) == [acc |-> acc, append |-> append, create |-> create]

\* A backend writer: a streaming PUT to path of container cont; the body is
\* stored when the writer is closed.  nil: no writer.
Writer(cont, path) == [cont |-> cont, path |-> path, buf |-> <<>>, open |-> TRUE, nil |-> FALSE]
NoWriter == [cont |-> "", path |-> <<>>, buf |-> <<>>, open |-> FALSE, nil |-> TRUE]

\* ObjectHandle (handle.go:15-27); by is the operation that returned it, sent
\* and asked record the bytes its Writes reported written and the bytes they
\* were asked to write, moved whether moveToSegment was run.
Handle(target, flags, wd, by) ==
    [target |-> target, acc |-> flags.acc, append |-> flags.append, wd |-> wd,
     create |-> flags.create, by |-> by,
     truncated |-> FALSE, wroteSegment |-> FALSE, segmentID |-> 0, uploaded |-> 0,
     segmentPrefix |-> <<>>, released |-> FALSE, sent |-> <<>>, asked |-> 0,
     moved |-> FALSE]

----------------------------------------------------------------------------
\* Object.removeSegments (part_001:143-150) on node o; ok: deleteSegments
\* succeeds.  Gives the heap and the segments container after it.
removeSegments(hp, sg, o, ok) ==
    IF ok
    THEN [heap |-> [hp EXCEPT ![o].segmented = FALSE, ![o].manifest = NoHeader],
          segs |-> deleteSegments(sg, hp[o].manifest)]
    ELSE [heap |-> [hp EXCEPT ![o].segmented = FALSE], segs |-> sg]

\* An open without the test of O_APPEND.
open_AppendAllowed(hp, sg, cc, o, flags, f) ==
    IF flags.acc = "RO"
    THEN [res |-> "ok", oh |-> NoWriter, handle |-> TRUE, heap |-> hp, segs |-> sg, cc |-> cc,
          calls |-> 0]
    ELSE IF flags.acc = "WO"
    THEN LET h1 == [hp EXCEPT ![o].m = TRUE]
             c1 == ChangeAdd(cc, hp[o].path, o)
             rs == IF h1[o].segmented /\ flags.create
                   THEN removeSegments(h1, sg, o, f # 1)
                   ELSE [heap |-> h1, segs |-> sg]
             n1 == IF h1[o].segmented /\ flags.create THEN 1 ELSE 0
         IN  IF h1[o].segmented /\ flags.create /\ f = 1
             THEN [res |-> "err", oh |-> NoWriter, handle |-> FALSE,
                   heap |-> rs.heap, segs |-> rs.segs, cc |-> c1, calls |-> n1]
             ELSE IF flags.create /\ f = 2
             THEN [res |-> "err", oh |-> NoWriter, handle |-> FALSE,
                   heap |-> rs.heap, segs |-> rs.segs, cc |-> c1, calls |-> n1 + 1]
             ELSE [res |-> "ok",
                   oh |-> IF flags.create THEN Writer(DataContainer, hp[o].path) ELSE NoWriter,
                   handle |-> TRUE, heap |-> rs.heap, segs |-> rs.segs, cc |-> c1,
                   calls |-> IF flags.create THEN n1 + 1 ELSE n1]
    ELSE [res |-> "ENOTSUP", oh |-> NoWriter, handle |-> FALSE, heap |-> hp, segs |-> sg, cc |-> cc,
          calls |-> 0]

\* Object.open (part_001:61-100) on node o of heap hp.  f = 1: deleteSegments
\* fails, f = 2: newWriter fails.  A write-only open waits for the mutex: it
\* returns only from a state where the mutex is free (OpenReady).  calls is
\* the number of backend calls it issued.
OpenReady(hp, o, flags) ==
    (~flags.append /\ flags.acc = "WO") => ~hp[o].m

OpenFails(hp, o, flags) ==
    {0} \cup (IF ~flags.append /\ flags.acc = "WO" /\ flags.create
              THEN (IF hp[o].segmented THEN {1} ELSE {}) \cup {2}
              ELSE {})

open(hp, sg, cc, o, flags, f) ==
    IF flags.append
    THEN [res |-> "ENOTSUP", oh |-> NoWriter, handle |-> FALSE, heap |-> hp, segs |-> sg, cc |-> cc,
          calls |-> 0]
    ELSE IF flags.acc = "RO"
    THEN [res |-> "ok", oh |-> NoWriter, handle |-> TRUE, heap |-> hp, segs |-> sg, cc |-> cc,
          calls |-> 0]
    ELSE IF flags.acc = "WO"
    THEN LET h1 == [hp EXCEPT ![o].m = TRUE]
             c1 == ChangeAdd(cc, hp[o].path, o)
             rs == IF h1[o].segmented /\ flags.create
                   THEN removeSegments(h1, sg, o, f # 1)
                   ELSE [heap |-> h1, segs |-> sg]
             n1 == IF h1[o].segmented /\ flags.create THEN 1 ELSE 0
         IN  IF h1[o].segmented /\ flags.create /\ f = 1
             THEN [res |-> "err", oh |-> NoWriter, handle |-> FALSE,
                   heap |-> rs.heap, segs |-> rs.segs, cc |-> c1, calls |-> n1]
             ELSE IF flags.create /\ f = 2
             THEN [res |-> "err", oh |-> NoWriter, handle |-> FALSE,
                   heap |-> rs.heap, segs |-> rs.segs, cc |-> c1, calls |-> n1 + 1]
             ELSE [res |-> "ok",
                   oh |-> IF flags.create THEN Writer(DataContainer, hp[o].path) ELSE NoWriter,
                   handle |-> TRUE, heap |-> rs.heap, segs |-> rs.segs, cc |-> c1,
                   calls |-> IF flags.create THEN n1 + 1 ELSE n1]
    ELSE [res |-> "ENOTSUP", oh |-> NoWriter, handle |-> FALSE, heap |-> hp, segs |-> sg, cc |-> cc,
          calls |-> 0]

\* Object.Open (part_001:103-105)
Open(o, flags, f) ==
    /\ Request
    /\ o \in Objects
    /\ Len(handles) < MaxHandles
    /\ OpenReady(heap, o, flags)
    /\ f \in OpenFails(heap, o, flags)
    /\ MayFail(f)
    /\ LET r == open(heap, segs, ChangeCache, o, flags, f)
       IN  /\ heap' = r.heap
           /\ segs' = r.segs
           /\ ChangeCache' = r.cc
           /\ handles' = IF r.handle THEN Append(handles, Handle(o, flags, r.oh, "Open")) ELSE handles
           /\ last' = Called(Ret("Open", r.res, Nil, heap[o].name, o,
                                 IF r.handle THEN Len(handles) + 1 ELSE Nil, <<>>, FALSE),
                             r.calls)
    /\ fails' = Count(f)
    /\ renamed' = NoRename
    /\ UNCHANGED <<store, DirectoryCache, rd, known, now, Encryption, ExtraAttr, made>>

\* Directory.Create (part_000:62-94).  f = 3: ObjectPutBytes fails; f = 1, 2:
\* the failures of open.
Create(d, name, flags, f) ==
    /\ Request
    /\ d \in Dirs
    /\ Len(heap) < MaxNodes
    /\ Len(handles) < MaxHandles
    /\ f \in {0, 3} \cup OpenFails(Append(heap, Node("obj", name, heap[d].path \o <<name>>, NoPath)),
                                   Len(heap) + 1, flags)
    /\ MayFail(f)
    /\ LET path == heap[d].path \o <<name>>
           id == Len(heap) + 1
           h0 == Append(heap, Node("obj", name, path, NoPath))
           r == open(h0, segs, ChangeCache, id, flags, f)
       IN  IF f = 3
           THEN /\ last' = Ret("Create", "err", d, name, Nil, Nil, <<>>, FALSE)
                /\ UNCHANGED <<store, segs, heap, DirectoryCache, ChangeCache, handles, known,
                               made>>
           ELSE /\ store' = ObjectPutBytes(store, path, "")
                /\ segs' = r.segs
                /\ ChangeCache' = r.cc
                /\ IF r.res = "ok"
                   THEN /\ heap' = [r.heap EXCEPT ![id].soName = path, ![id].bytes = 0,
                                                  ![id].manifest = NoHeader]
                        /\ DirectoryCache' = CacheSet(DirectoryCache, heap[d].path, name, id)
                        /\ handles' = Append(handles, Handle(id, flags, r.oh, "Create"))
                        /\ known' = known \cup {id}
                        /\ last' = Ret("Create", "ok", d, name, id, Len(handles) + 1, <<>>, FALSE)
                        /\ made' = Forget(made, heap[d].path, name)
                   ELSE /\ heap' = r.heap
                        /\ UNCHANGED <<DirectoryCache, handles, known, made>>
                        /\ last' = Ret("Create", r.res, d, name, Nil, Nil, <<>>, FALSE)
    /\ fails' = Count(f)
    /\ renamed' = NoRename
    /\ UNCHANGED <<rd, now, Encryption, ExtraAttr>>

----------------------------------------------------------------------------
\* The object handle.  Its methods work on x = [h, o, store, segs, err]: the
\* handle, its target node, the two containers, and the error returned ("":
\* none; "panic": a nil writer dereferenced, which the FUSE server turns into
\* an error reply).

\* wd.Close(): stores the body under the writer's name; ok: the PUT succeeds.
\* Closing a closed writer does nothing.
Close(x, ok) ==
    LET w == x.h.wd
    IN  IF ~w.open THEN x
        ELSE LET x1 == [x EXCEPT !.h.wd.open = FALSE]
             IN  IF ~ok THEN x1
                 ELSE IF w.cont = DataContainer
                 THEN [x1 EXCEPT !.store = Put(@, w.path, StoredObject("", w.buf, NoHeader))]
                 ELSE [x1 EXCEPT !.segs = Put(@, w.path, w.buf)]

\* segmentPath(prefix, id)
segmentPath(prefix, id) == prefix \o <<"/", ToString(id)>>

\* createManifest(target, container, segmentsPath, path); ok: the PUT succeeds.
createManifest(x, header, ok) ==
    IF ok
    THEN [x EXCEPT !.store = Put(@, x.o.path, StoredObject("", <<>>, header)),
                   !.o.manifest = header]
    ELSE x

\* initSegment(cs, prefix, &segmentID, so, data, &uploaded, &nonce); ok: the
\* next segment is opened and data written to it.
initSegment(x, data, ok) ==
    LET id == x.h.segmentID + 1
    IN  IF ok
        THEN [x EXCEPT !.h.segmentID = id,
                       !.h.wd = [Writer(SegmentsContainer, segmentPath(x.h.segmentPrefix, id))
                                 EXCEPT !.buf = data],
                       !.h.uploaded = Len(data),
                       !.o.bytes = @ + Len(data)]
        ELSE [x EXCEPT !.h.segmentID = id, !.h.wd = NoWriter, !.err = "err"]

\* ObjectHandle.truncate (handle.go:144-161).  f = 1: deleteSegments fails,
\* f = 2: newWriter fails.
truncate(x, f) ==
    LET x1 == IF x.o.segmented
              THEN [x EXCEPT !.segs = deleteSegments(@, x.o.manifest),
                             !.o.manifest = NoHeader, !.o.segmented = FALSE]
              ELSE x
        x2 == [x1 EXCEPT !.h.truncated = TRUE, !.o.bytes = 0,
                         !.h.wd = IF f = 2 THEN NoWriter ELSE Writer(DataContainer, x.o.soName),
                         !.err = IF f = 2 THEN "err" ELSE ""]
    IN  IF x.o.segmented /\ f = 1 THEN [x EXCEPT !.err = "err"] ELSE x2

\* ObjectHandle.moveToSegment (handle.go:122-142) at time t.  f = 4: closing
\* the writer fails, f = 5: ObjectMove fails, f = 6: createManifest fails.
moveToSegment(x, t, f) ==
    LET prefix == x.o.path \o <<"/", ToString(t)>>
        path == segmentPath(prefix, x.h.segmentID)
        x1 == [Close(x, f # 4) EXCEPT !.h.segmentPrefix = prefix, !.h.moved = TRUE]
        x2 == [x1 EXCEPT !.segs = Put(@, path, x1.store[x.o.path].body),
                         !.store = Del(@, x.o.path)]
        x3 == createManifest(x2, <<SegmentsContainer, "/">> \o prefix, f # 6)
    IN  IF x.h.wd.nil THEN [x EXCEPT !.err = "panic", !.h.moved = TRUE]
        ELSE IF f = 5 \/ ~Has(x1.store, x.o.path) THEN [x1 EXCEPT !.err = "err"]
        ELSE [x3 EXCEPT !.h.wroteSegment = TRUE, !.o.segmented = TRUE]

\* Whether the request fits the current segment (handle.go:86).
FitsSegment(uploaded, len) == uploaded + len <= SegmentSize

\* ObjectHandle.Write (handle.go:74-120) of data at time t.  f = 3: the append
\* fails, f = 7: closing the current segment fails, f = 8: initSegment fails.
Write(x, data, t, f) ==
    LET x0 == [x EXCEPT !.o.writing = TRUE]
        x1 == IF ~x.h.create /\ ~x.h.truncated THEN truncate(x0, f) ELSE x0
        \* handle.go:86-97
        xa == IF x1.h.wd.nil THEN [x1 EXCEPT !.err = "panic"]
              ELSE IF f = 3 \/ ~x1.h.wd.open THEN [x1 EXCEPT !.err = "err"]
              ELSE [x1 EXCEPT !.h.wd.buf = @ \o data,
                              !.h.uploaded = @ + Len(data),
                              !.o.bytes = @ + Len(data)]
        \* handle.go:100-115
        x2 == IF ~x1.h.wroteSegment THEN moveToSegment(x1, t, f) ELSE x1
        x3 == IF x2.h.wd.nil THEN [x2 EXCEPT !.err = "panic"] ELSE Close(x2, f # 7)
        xb == IF x2.err # "" THEN x2
              ELSE IF x3.err # "" THEN x3
              ELSE initSegment(x3, data, f # 8)
    IN  IF x1.err # "" THEN x1
        ELSE IF FitsSegment(x1.h.uploaded, Len(data)) THEN xa
        ELSE xb

\* The failures a Write of len bytes can meet.
WriteFails(h, o, len) ==
    LET trunc == ~h.create /\ ~h.truncated
        fits == FitsSegment(IF trunc THEN 0 ELSE h.uploaded, len)
    IN  {0} \cup (IF trunc /\ o.segmented THEN {1} ELSE {})
            \cup (IF trunc THEN {2} ELSE {})
            \cup (IF fits /\ (trunc \/ h.wd.open) THEN {3} ELSE {})
            \cup (IF ~fits /\ ~h.wroteSegment /\ (trunc \/ h.wd.open) THEN {4, 5, 6} ELSE {})
            \cup (IF ~fits /\ h.wroteSegment /\ h.wd.open THEN {7} ELSE {})
            \cup (IF ~fits /\ (trunc \/ ~h.wd.nil) THEN {8} ELSE {})

\* updateHeaders(target, nonce), called when Encryption is on; ok: it succeeds.
\* ObjectHandle.Release (handle.go:45-65).  f = 1: closing the writer fails,
\* f = 2: updateHeaders fails.  res "fatal": Unlock of an unlocked mutex, which
\* ends the process.
Release(hs, hp, cc, st, sg, h, enc, f) ==
    LET fh == hs[h]
        o == fh.target
        x == Close([h |-> fh, o |-> hp[o], store |-> st, segs |-> sg, err |-> ""], f # 1)
        hs1 == [hs EXCEPT ![h] = [x.h EXCEPT !.released = TRUE]]
        failed == ~fh.wd.nil /\ enc /\ f = 2
        hp1 == IF ~fh.wd.nil /\ ~failed THEN [hp EXCEPT ![o].writing = FALSE] ELSE hp
        exist == ChangeExist(cc, hp[o].path)
    IN  IF failed
        THEN [res |-> "err", handles |-> hs1, heap |-> hp1, cc |-> cc,
              store |-> x.store, segs |-> x.segs]
        ELSE IF exist
        THEN [res |-> IF hp[o].m THEN "ok" ELSE "fatal", handles |-> hs1,
              heap |-> [hp1 EXCEPT ![o].m = FALSE],
              cc |-> ChangeRemove(cc, hp[o].path), store |-> x.store, segs |-> x.segs]
        ELSE [res |-> "ok", handles |-> hs1, heap |-> hp1, cc |-> cc,
              store |-> x.store, segs |-> x.segs]

ReleaseFails(fh, enc) ==
    {0} \cup (IF fh.wd.open THEN {1} ELSE {}) \cup (IF ~fh.wd.nil /\ enc THEN {2} ELSE {})

\* The bytes of a request: each byte a handle is asked to write is a new value.
Data(from, len) == [i \in 1..len |-> from + i]

\* Whether a Write of len bytes on handle fh reads the clock (handle.go:101,
\* 124): it runs moveToSegment.
ReadsClock(fh, len) ==
    /\ ~FitsSegment(IF ~fh.create /\ ~fh.truncated THEN 0 ELSE fh.uploaded, len)
    /\ ~fh.wroteSegment

\* A Write request of len bytes on the open write handle h; t is the time the
\* clock shows if the request reads it.
WriteReq(h, len, t, f) ==
    /\ Request
    /\ h \in 1..Len(handles)
    /\ ~handles[h].released
    /\ handles[h].acc = "WO"
    /\ len \in 1..MaxChunk
    /\ handles[h].asked + len <= MaxBytes
    /\ t \in now..MaxClock
    /\ t # now => ReadsClock(handles[h], len)
    /\ f \in WriteFails(handles[h], heap[handles[h].target], len)
    /\ MayFail(f)
    /\ LET fh == handles[h]
           data == Data(fh.asked, len)
           x == Write([h |-> fh, o |-> heap[fh.target], store |-> store, segs |-> segs,
                       err |-> ""], data, t, f)
       IN  /\ handles' = [handles EXCEPT ![h] =
                             [x.h EXCEPT !.asked = @ + len,
                                         !.sent = IF x.err = "" THEN @ \o data ELSE @]]
           /\ heap' = [heap EXCEPT ![fh.target] = x.o]
           /\ store' = x.store
           /\ segs' = x.segs
           /\ last' = Ret("Write", IF x.err = "" THEN "ok" ELSE x.err, Nil,
                          heap[fh.target].name, fh.target, h, <<>>, FALSE)
    /\ now' = t
    /\ fails' = Count(f)
    /\ renamed' = NoRename
    /\ UNCHANGED <<DirectoryCache, ChangeCache, rd, known, Encryption, ExtraAttr, made>>

\* The Release request of the open handle h.
ReleaseReq(h, f) ==
    /\ Request
    /\ h \in 1..Len(handles)
    /\ ~handles[h].released
    /\ f \in ReleaseFails(handles[h], Encryption)
    /\ MayFail(f)
    /\ LET r == Release(handles, heap, ChangeCache, store, segs, h, Encryption, f)
       IN  /\ handles' = r.handles
           /\ heap' = r.heap
           /\ ChangeCache' = r.cc
           /\ store' = r.store
           /\ segs' = r.segs
           /\ last' = Ret("Release", r.res, Nil, heap[handles[h].target].name,
                          handles[h].target, h, <<>>, FALSE)
    /\ fails' = Count(f)
    /\ renamed' = NoRename
    /\ UNCHANGED <<DirectoryCache, rd, known, now, Encryption, ExtraAttr, made>>

----------------------------------------------------------------------------
\* The directory node.

\* A Mkdir whose node keeps the path of the marker object, without the "/".
newDirectory_NoSlash(name, absPath) == Node("dir", name, absPath, absPath)

\* The Directory node Mkdir builds (part_000:262-273).
newDirectory(name, absPath) == Node("dir", name, absPath \o <<"/">>, absPath)

\* Whether the container holds an object or a pseudo-directory of that path.
Taken(st, path) == \E q \in DOMAIN st : q = path \/ IsPrefix(path \o <<"/">>, q)

\* Directory.Mkdir (part_000:251-279); ok: ObjectPutBytes succeeds.
Mkdir(d, name, ok) ==
    /\ Request
    /\ d \in Dirs
    /\ Len(heap) < MaxNodes
    /\ MayFail(IF ok THEN 0 ELSE 1)
    /\ LET absPath == heap[d].path \o <<name>>
           id == Len(heap) + 1
       IN  IF ~ok
           THEN /\ last' = Ret("Mkdir", "EIO", d, name, Nil, Nil, <<>>, FALSE)
                /\ UNCHANGED <<store, heap, DirectoryCache, known, made>>
           ELSE /\ store' = ObjectPutBytes(store, absPath, DirContentType)
                /\ heap' = Append(heap, newDirectory(name, absPath))
                /\ DirectoryCache' = CacheSet(DirectoryCache, heap[d].path, name, id)
                /\ known' = known \cup {id}
                /\ last' = Ret("Mkdir", "ok", d, name, id, Nil, <<>>, FALSE)
                /\ made' = Put(made, <<heap[d].path, name>>,
                               [node |-> id, fresh |-> ~Taken(store, absPath),
                                installed |-> FALSE])
    /\ fails' = Count(IF ok THEN 0 ELSE 1)
    /\ renamed' = NoRename
    /\ UNCHANGED <<segs, ChangeCache, handles, rd, now, Encryption, ExtraAttr>>

\* Directory.Symlink (part_000:401-432); ok: ObjectCreate succeeds.
Symlink(d, name, ok) ==
    /\ Request
    /\ d \in Dirs
    /\ Len(heap) < MaxNodes
    /\ MayFail(IF ok THEN 0 ELSE 1)
    /\ LET absPath == heap[d].path \o <<name>>
           id == Len(heap) + 1
       IN  IF ~ok
           THEN /\ last' = Ret("Symlink", "err", d, name, Nil, Nil, <<>>, FALSE)
                /\ UNCHANGED <<store, heap, DirectoryCache, known, made>>
           ELSE /\ store' = ObjectPutBytes(store, absPath, LinkContentType)
                /\ heap' = Append(heap, Node("link", name, absPath, absPath))
                /\ DirectoryCache' = CacheSet(DirectoryCache, heap[d].path, name, id)
                /\ known' = known \cup {id}
                /\ last' = Ret("Symlink", "ok", d, name, id, Nil, <<>>, FALSE)
                /\ made' = Forget(made, heap[d].path, name)
    /\ fails' = Count(IF ok THEN 0 ELSE 1)
    /\ renamed' = NoRename
    /\ UNCHANGED <<segs, ChangeCache, handles, rd, now, Encryption, ExtraAttr>>

\* The direntries of the cached children, in the order the map yields them.
RECURSIVE ExportAll(_, _)
ExportAll(hp, children) ==
    IF DOMAIN children = {} THEN <<>>
    ELSE LET n == CHOOSE x \in DOMAIN children : TRUE
         IN  <<Export(hp[children[n]])>> \o ExportAll(hp, Del(children, n))

IdleRd == [pc |-> "idle", d |-> Nil, objects |-> <<>>, direntries |-> <<>>,
           children |-> EmptyMap, tasks |-> <<>>]

\* Directory.ReadDirAll up to the return of ObjectsAll (part_000:107-131) on
\* thread t; ok: the listing succeeds, objects: what it returns.
ReadDirFetchOf(t, d, ok, objects) ==
    /\ Request
    /\ d \in Dirs
    /\ rd[t].pc = "idle"
    /\ LET path == heap[d].path
           hit == CachePeek(DirectoryCache, path)
       IN  /\ hit => ok
           /\ MayFail(IF ok THEN 0 ELSE 1)
           /\ (~hit /\ ok) => Len(heap) + Len(objects) <= MaxNodes
           /\ IF hit
              THEN /\ last' = Ret("ReadDirAll", "ok", d, "", Nil, Nil,
                                  ExportAll(heap, DirectoryCache[Key(DataContainer, path)].children),
                                  FALSE)
                   /\ rd' = rd
              ELSE IF ~ok
              THEN /\ last' = Ret("ReadDirAll", "err", d, "", Nil, Nil, <<>>, TRUE)
                   /\ rd' = rd
              ELSE /\ last' = Ret("ObjectsAll", "ok", d, "", Nil, Nil, <<>>, TRUE)
                   /\ rd' = [rd EXCEPT ![t] = [IdleRd EXCEPT !.pc = "fetched", !.d = d,
                                                             !.objects = objects]]
    /\ fails' = Count(IF ok THEN 0 ELSE 1)
    /\ renamed' = NoRename
    /\ UNCHANGED <<store, segs, heap, DirectoryCache, ChangeCache, handles, known, now,
                   Encryption, ExtraAttr, made>>

\* The same, the backend listing the names in byte order.
ReadDirFetch(t, d, ok) == ReadDirFetchOf(t, d, ok, ObjectsAll(store, heap[d].path))

\* The same, the backend listing the names in the order p.
Orders(n) == {p \in [1..n -> 1..n] : \A i, j \in 1..n : p[i] = p[j] => i = j}

InOrder(objects, p) == [i \in 1..Len(objects) |-> objects[p[i]]]

ReadDirFetchAny(t, d, p) ==
    /\ p \in Orders(Len(ObjectsAll(store, heap[d].path)))
    /\ ReadDirFetchOf(t, d, TRUE, InOrder(ObjectsAll(store, heap[d].path), p))

\* The end of ReadDirAll (part_000:219-221): the children are installed and
\* the direntries returned.
Install(dc, hp, r) == CacheAddAll(dc, hp[r.d].path, r.d, r.children)

\* The loop of ReadDirAll over the listing (part_000:133-204) on thread t,
\* and its end when no entry was given to the lister.
ReadDirFill(t) ==
    /\ Alive
    /\ UNCHANGED ops
    /\ rd[t].pc = "fetched"
    /\ LET acc == Fill(heap, heap[rd[t].d], rd[t].objects, ChangeCache, ExtraAttr)
           r == [rd[t] EXCEPT !.pc = "drain", !.direntries = acc.direntries,
                              !.children = acc.children, !.tasks = acc.tasks]
       IN  /\ heap' = acc.heap
           /\ IF acc.tasks = <<>>
              THEN /\ DirectoryCache' = Install(DirectoryCache, heap, r)
                   /\ rd' = [rd EXCEPT ![t] = IdleRd]
                   /\ last' = Ret("ReadDirAll", "ok", r.d, "", Nil, Nil, r.direntries, TRUE)
                   /\ made' = Installed(made, heap[r.d].path)
              ELSE /\ rd' = [rd EXCEPT ![t] = r]
                   /\ last' = Ret("Fill", "ok", r.d, "", Nil, Nil, <<>>, TRUE)
                   /\ UNCHANGED <<DirectoryCache, made>>
    /\ renamed' = NoRename
    /\ UNCHANGED <<store, segs, ChangeCache, handles, known, now, fails, Encryption, ExtraAttr>>

RemoveAt(s, i) == SubSeq(s, 1, i - 1) \o SubSeq(s, i + 1, Len(s))

\* The lister finishes the i-th pending task (ok: its HEAD succeeds) and the
\* drain loop receives it (part_000:207-217); after the last one the children
\* are installed.
ReadDirDrain(t, i, ok) ==
    /\ Alive
    /\ UNCHANGED ops
    /\ rd[t].pc = "drain"
    /\ i \in 1..Len(rd[t].tasks)
    /\ MayFail(IF ok THEN 0 ELSE 1)
    /\ LET id == rd[t].tasks[i]
           hp == Enrich(heap, store, id, ok)
           r == [Receive(rd[t], hp, id) EXCEPT !.tasks = RemoveAt(@, i)]
       IN  /\ heap' = hp
           /\ IF r.tasks = <<>>
              THEN /\ DirectoryCache' = Install(DirectoryCache, heap, r)
                   /\ rd' = [rd EXCEPT ![t] = IdleRd]
                   /\ last' = Ret("ReadDirAll", "ok", r.d, "", Nil, Nil, r.direntries, TRUE)
                   /\ made' = Installed(made, heap[r.d].path)
              ELSE /\ rd' = [rd EXCEPT ![t] = r]
                   /\ last' = Ret("Drain", "ok", r.d, "", Nil, Nil, <<>>, TRUE)
                   /\ UNCHANGED <<DirectoryCache, made>>
    /\ fails' = Count(IF ok THEN 0 ELSE 1)
    /\ renamed' = NoRename
    /\ UNCHANGED <<store, segs, ChangeCache, handles, known, now, Encryption, ExtraAttr>>

\* ReadDirAll run to its end in one go, as Lookup calls it: the tasks finish
\* in the order they were given (eok: their HEADs succeed).
RECURSIVE DrainAll(_, _, _, _)
DrainAll(r, hp, st, eok) ==
    IF r.tasks = <<>> THEN [r |-> r, heap |-> hp]
    ELSE LET h1 == Enrich(hp, st, Head(r.tasks), eok)
         IN  DrainAll([Receive(r, h1, Head(r.tasks)) EXCEPT !.tasks = Tail(@)], h1, st, eok)

ReadDirAllSync(hp, dc, cc, st, d, extra, ok, eok) ==
    IF CachePeek(dc, hp[d].path) \/ ~ok THEN [heap |-> hp, dc |-> dc]
    ELSE LET acc == Fill(hp, hp[d], ObjectsAll(st, hp[d].path), cc, extra)
             r == DrainAll([IdleRd EXCEPT !.d = d, !.direntries = acc.direntries,
                                          !.children = acc.children, !.tasks = acc.tasks],
                           acc.heap, st, eok)
         IN  [heap |-> r.heap, dc |-> Install(dc, hp, r.r)]

\* ReadDirAll and the lister, step by step.  The lister is a pool of
\* ListerConcurrency workers: AddTask hands a node to a free worker and
\* blocks its caller while there is none; the worker runs the node's HEAD
\* and then posts the node on the result channel, which holds
\* ListerConcurrency nodes (part_000:110), and is free again once it has
\* posted.  A ReadDirAll in its loop has i, the entry it is at, dirs, count,
\* busy (the nodes whose HEAD is running), posting (the nodes whose worker
\* is about to post or blocked posting), chan (the result channel) and done.
LoopRd(d, objects) ==
    [pc |-> "loop", d |-> d, objects |-> objects, direntries |-> <<>>, children |-> EmptyMap,
     tasks |-> <<>>, i |-> 1, dirs |-> {}, count |-> 0, busy |-> {}, posting |-> {},
     chan |-> <<>>, done |-> 0]

FreeWorker(r) == Cardinality(r.busy) + Cardinality(r.posting) < ListerConcurrency

\* One turn of the loop (part_000:136-204): the entry is classified and its
\* node exported, or given to the lister, which needs a free worker.
ListerLoop(t) ==
    /\ Alive
    /\ rd[t].pc = "loop"
    /\ rd[t].i <= Len(rd[t].objects)
    /\ LET r == rd[t]
           acc == FillOne([heap |-> heap, dirs |-> r.dirs, direntries |-> r.direntries,
                           children |-> r.children, tasks |-> <<>>],
                          heap[r.d], r.objects[r.i], ChangeCache, ExtraAttr)
       IN  /\ acc.tasks # <<>> => FreeWorker(r)
           /\ heap' = acc.heap
           /\ rd' = [rd EXCEPT ![t] =
                        [r EXCEPT !.i = @ + 1, !.dirs = acc.dirs,
                                  !.direntries = acc.direntries, !.children = acc.children,
                                  !.busy = @ \cup {acc.tasks[k] : k \in 1..Len(acc.tasks)},
                                  !.count = @ + Len(acc.tasks)]]
           /\ last' = Ret("Loop", "ok", r.d, "", Nil, Nil, <<>>, TRUE)
    /\ UNCHANGED <<store, segs, DirectoryCache, ChangeCache, handles, known, now, fails,
                   Encryption, ExtraAttr, ops, made, renamed>>

\* A worker's HEAD of the node id returns (ok: with the headers).
ListerHead(t, id, ok) ==
    /\ Alive
    /\ id \in rd[t].busy
    /\ MayFail(IF ok THEN 0 ELSE 1)
    /\ heap' = Enrich(heap, store, id, ok)
    /\ rd' = [rd EXCEPT ![t].busy = @ \ {id}, ![t].posting = @ \cup {id}]
    /\ fails' = Count(IF ok THEN 0 ELSE 1)
    /\ last' = Ret("Head", IF ok THEN "ok" ELSE "err", rd[t].d, "", id, Nil, <<>>, TRUE)
    /\ UNCHANGED <<store, segs, DirectoryCache, ChangeCache, handles, known, now,
                   Encryption, ExtraAttr, ops, made, renamed>>

\* A worker posts the node id on the result channel, which has room.
ListerPost(t, id) ==
    /\ Alive
    /\ id \in rd[t].posting
    /\ Len(rd[t].chan) < ListerConcurrency
    /\ rd' = [rd EXCEPT ![t].posting = @ \ {id}, ![t].chan = Append(@, id)]
    /\ last' = Ret("Post", "ok", rd[t].d, "", id, Nil, <<>>, TRUE)
    /\ UNCHANGED <<store, segs, heap, DirectoryCache, ChangeCache, handles, known, now, fails,
                   Encryption, ExtraAttr, ops, made, renamed>>

\* The drain loop (part_000:207-217) receives a node from the channel.
ListerReceive(t) ==
    /\ Alive
    /\ rd[t].pc = "drain"
    /\ rd[t].chan # <<>>
    /\ rd' = [rd EXCEPT ![t] = [Receive(rd[t], heap, Head(rd[t].chan))
                                   EXCEPT !.chan = Tail(@), !.done = @ + 1,
                                          !.pc = IF rd[t].done + 1 = rd[t].count
                                                 THEN "install" ELSE "drain"]]
    /\ last' = Ret("Receive", "ok", rd[t].d, "", Head(rd[t].chan), Nil, <<>>, TRUE)
    /\ UNCHANGED <<store, segs, heap, DirectoryCache, ChangeCache, handles, known, now, fails,
                   Encryption, ExtraAttr, ops, made, renamed>>

\* The loop is over (part_000:204-207): the drain loop starts when count > 0.
ListerLoopEnd(t) ==
    /\ Alive
    /\ rd[t].pc = "loop"
    /\ rd[t].i > Len(rd[t].objects)
    /\ rd' = [rd EXCEPT ![t].pc = IF rd[t].count > 0 THEN "drain" ELSE "install"]
    /\ last' = Ret("LoopEnd", "ok", rd[t].d, "", Nil, Nil, <<>>, TRUE)
    /\ UNCHANGED <<store, segs, heap, DirectoryCache, ChangeCache, handles, known, now, fails,
                   Encryption, ExtraAttr, ops, made, renamed>>

\* The end of ReadDirAll (part_000:219-221).
ListerInstall(t) ==
    /\ Alive
    /\ rd[t].pc = "install"
    /\ DirectoryCache' = Install(DirectoryCache, heap, rd[t])
    /\ rd' = [rd EXCEPT ![t].pc = "returned"]
    /\ last' = Ret("ReadDirAll", "ok", rd[t].d, "", Nil, Nil, rd[t].direntries, TRUE)
    /\ made' = Installed(made, heap[rd[t].d].path)
    /\ UNCHANGED <<store, segs, heap, ChangeCache, handles, known, now, fails,
                   Encryption, ExtraAttr, ops, renamed>>

\* Directory.Lookup (part_000:228-247); ok: the listing of the ReadDirAll it
\* may call succeeds.
Lookup(d, name, ok, eok) ==
    /\ Request
    /\ d \in Dirs
    /\ LET path == heap[d].path
           miss == ~CachePeek(DirectoryCache, path)
           r == IF miss
                THEN ReadDirAllSync(heap, DirectoryCache, ChangeCache, store, d, ExtraAttr, ok, eok)
                ELSE [heap |-> heap, dc |-> DirectoryCache]
           item == CacheGet(r.dc, path, name)
       IN  /\ ~miss => (ok /\ eok)
           /\ ~ok => eok
           /\ MayFail(IF ok /\ eok THEN 0 ELSE 1)
           /\ (miss /\ ok) => Len(heap) + Len(ObjectsAll(store, path)) <= MaxNodes
           /\ (miss /\ ok /\ ~eok) => Len(r.heap) > Len(heap)
           /\ heap' = r.heap
           /\ DirectoryCache' = r.dc
           /\ known' = IF item = Nil THEN known ELSE known \cup {item}
           /\ last' = Ret("Lookup", IF item = Nil THEN "ENOENT" ELSE "ok", d, name, item, Nil,
                          <<>>, miss)
           /\ fails' = Count(IF ok /\ eok THEN 0 ELSE 1)
           /\ made' = IF miss /\ ok THEN Installed(made, path) ELSE made
    /\ renamed' = NoRename
    /\ UNCHANGED <<store, segs, ChangeCache, handles, rd, now, Encryption, ExtraAttr>>

\* A delete, move or HEAD of a name the container does not hold fails.
Exists(st, path) == Has(st, path)

\* Directory.removeDirectory (part_000:360-369).  f = 1: ObjectDelete fails.
removeDirectory(st, sg, dc, hp, d, dir, f) ==
    LET st1 == IF f # 1 /\ Exists(st, hp[dir].soName) THEN ObjectDelete(st, hp[dir].soName) ELSE st
        dc1 == IF CachePeek(dc, hp[dir].path) THEN CacheDeleteAll(dc, hp[dir].path) ELSE dc
    IN  [res |-> "ok", store |-> st1, segs |-> sg,
         dc |-> CacheDelete(dc1, hp[d].path, hp[dir].name), calls |-> 1]

\* A removeObject that deletes without testing the manifest header.
removeObject_NoRegexCheck(st, sg, dc, hp, d, o, name, path, f) ==
    LET h == st[path].manifest
        sg1 == IF hp[o].segmented THEN deleteSegments(sg, h) ELSE sg
        st1 == IF f # 3 /\ Exists(st, path) THEN ObjectDelete(st, path) ELSE st
    IN  IF hp[o].segmented /\ (f = 1 \/ ~Exists(st, path))
        THEN [res |-> "err", store |-> st, segs |-> sg, dc |-> dc, calls |-> 1]
        ELSE IF hp[o].segmented /\ f = 2
        THEN [res |-> "err", store |-> st, segs |-> sg, dc |-> dc, calls |-> 2]
        ELSE [res |-> "ok", store |-> st1, segs |-> sg1,
              dc |-> CacheDelete(dc, hp[d].path, name),
              calls |-> IF hp[o].segmented THEN 3 ELSE 1]

\* Directory.removeObject (part_000:371-389).  f = 1: the HEAD fails, f = 2:
\* deleteSegments fails, f = 3: ObjectDelete fails.
removeObject(st, sg, dc, hp, d, o, name, path, f) ==
    LET h == st[path].manifest
        sg1 == IF hp[o].segmented THEN deleteSegments(sg, h) ELSE sg
        st1 == IF f # 3 /\ Exists(st, path) THEN ObjectDelete(st, path) ELSE st
    IN  IF hp[o].segmented /\ (f = 1 \/ ~Exists(st, path))
        THEN [res |-> "err", store |-> st, segs |-> sg, dc |-> dc, calls |-> 1]
        ELSE IF hp[o].segmented /\ ~SegmentPathRegexMatch(h)
        THEN [res |-> "err", store |-> st, segs |-> sg, dc |-> dc, calls |-> 1]
        ELSE IF hp[o].segmented /\ f = 2
        THEN [res |-> "err", store |-> st, segs |-> sg, dc |-> dc, calls |-> 2]
        ELSE [res |-> "ok", store |-> st1, segs |-> sg1,
              dc |-> CacheDelete(dc, hp[d].path, name),
              calls |-> IF hp[o].segmented THEN 3 ELSE 1]

RemoveFails(hp, node) ==
    IF node = Nil THEN {0}
    ELSE IF hp[node].kind = "dir" THEN {0, 1}
    ELSE IF hp[node].kind = "obj"
    THEN {0, 3} \cup (IF hp[node].segmented THEN {1, 2} ELSE {})
    ELSE {0}

\* Directory.Remove (part_000:288-302)
Remove(d, name, f) ==
    /\ Request
    /\ d \in Dirs
    /\ LET path == heap[d].path \o <<name>>
           node == CacheGet(DirectoryCache, heap[d].path, name)
           r == IF node # Nil /\ heap[node].kind = "dir"
                THEN removeDirectory(store, segs, DirectoryCache, heap, d, node, f)
                ELSE IF node # Nil /\ heap[node].kind = "obj"
                THEN removeObject(store, segs, DirectoryCache, heap, d, node, name, path, f)
                ELSE [res |-> "ENOTSUP", store |-> store, segs |-> segs, dc |-> DirectoryCache,
                      calls |-> 0]
       IN  /\ f \in RemoveFails(heap, node)
           /\ MayFail(f)
           /\ store' = r.store
           /\ segs' = r.segs
           /\ DirectoryCache' = r.dc
           /\ last' = Called(Ret("Remove", r.res, d, name, node, Nil, <<>>, FALSE), r.calls)
           /\ made' = IF r.res # "ok" THEN made
                      ELSE IF heap[node].kind = "dir"
                      THEN ForgetDir(Forget(made, heap[d].path, name), heap[node].path)
                      ELSE Forget(made, heap[d].path, name)
    /\ fails' = Count(f)
    /\ renamed' = NoRename
    /\ UNCHANGED <<heap, ChangeCache, handles, rd, known, now, Encryption, ExtraAttr>>

\* A moveObject that leaves the old name in the cache.
moveObject_KeepsOldName(st, dc, hp, oldPath, oldName, newPath, newName, o, f) ==
    IF f = 1 \/ ~Exists(st, oldPath \o <<oldName>>)
    THEN [res |-> "err", store |-> st, dc |-> dc, heap |-> hp, calls |-> 1]
    ELSE [res |-> "ok", calls |-> 1,
          store |-> ObjectMove(st, oldPath \o <<oldName>>, newPath \o <<newName>>),
          heap |-> [hp EXCEPT ![o].name = newName, ![o].path = newPath \o <<newName>>],
          dc |-> CacheSet(dc, newPath, newName, o)]

\* Directory.moveObject (part_000:326-339).  f = 1: ObjectMove fails.
moveObject(st, dc, hp, oldPath, oldName, newPath, newName, o, f) ==
    IF f = 1 \/ ~Exists(st, oldPath \o <<oldName>>)
    THEN [res |-> "err", store |-> st, dc |-> dc, heap |-> hp, calls |-> 1]
    ELSE [res |-> "ok", calls |-> 1,
          store |-> ObjectMove(st, oldPath \o <<oldName>>, newPath \o <<newName>>),
          heap |-> [hp EXCEPT ![o].name = newName, ![o].path = newPath \o <<newName>>],
          dc |-> CacheSet(CacheDelete(dc, oldPath, oldName), newPath, newName, o)]

\* Directory.moveManifest (part_000:341-358).  f = 1: ManifestCopy fails,
\* f = 2: ObjectDelete fails.
moveManifest(st, dc, hp, oldPath, oldName, newPath, newName, o, f) ==
    IF f = 1 \/ ~Exists(st, oldPath \o <<oldName>>)
    THEN [res |-> "err", store |-> st, dc |-> dc, heap |-> hp, calls |-> 1]
    ELSE IF f = 2
    THEN [res |-> "err", store |-> ManifestCopy(st, oldPath \o <<oldName>>, newPath \o <<newName>>),
          dc |-> dc, heap |-> hp, calls |-> 2]
    ELSE [res |-> "ok", calls |-> 2,
          store |-> ObjectDelete(ManifestCopy(st, oldPath \o <<oldName>>, newPath \o <<newName>>),
                                 oldPath \o <<oldName>>),
          heap |-> [hp EXCEPT ![o].name = newName, ![o].path = newPath \o <<newName>>],
          dc |-> CacheSet(CacheDelete(dc, oldPath, oldName), newPath, newName, o)]

\* Directory.move (part_000:308-324)
move(st, dc, hp, d, oldPath, oldName, newPath, newName, f) ==
    LET oldNode == CacheGet(dc, hp[d].path, oldName)
    IN  IF oldNode # Nil /\ hp[oldNode].kind = "obj"
        THEN IF hp[oldNode].segmented
             THEN moveManifest(st, dc, hp, oldPath, oldName, newPath, newName, oldNode, f)
             ELSE moveObject(st, dc, hp, oldPath, oldName, newPath, newName, oldNode, f)
        ELSE [res |-> "ENOTSUP", store |-> st, dc |-> dc, heap |-> hp, calls |-> 0]

RenameFails(hp, node, newDir) ==
    IF node = Nil \/ hp[newDir].kind # "dir" THEN {0}
    ELSE IF hp[node].kind # "obj" THEN {0}
    ELSE IF hp[node].segmented THEN {0, 1, 2} ELSE {0, 1}

\* Whether a Rename of node from (d, oldName) to (newDir, newName) reverses
\* the request before it.
Reverses(node, d, oldName, newDir, newName) ==
    /\ renamed.node = node
    /\ last.op = "Rename"
    /\ last.res = "ok"
    /\ heap[last.d].path = heap[newDir].path
    /\ last.name = newName
    /\ heap[last.d2].path = heap[d].path
    /\ last.name2 = oldName

\* Directory.Rename (part_000:393-398).  The kernel sends no rename of a name
\* to itself.
Rename(d, oldName, newDir, newName, f) ==
    /\ Request
    /\ d \in Dirs
    /\ newDir \in known
    /\ ~(heap[d].path = heap[newDir].path /\ oldName = newName)
    /\ LET node == CacheGet(DirectoryCache, heap[d].path, oldName)
           r == IF heap[newDir].kind = "dir"
                THEN move(store, DirectoryCache, heap, d, heap[d].path, oldName,
                          heap[newDir].path, newName, f)
                ELSE [res |-> "ENOTSUP", store |-> store, dc |-> DirectoryCache, heap |-> heap,
                      calls |-> 0]
       IN  /\ f \in RenameFails(heap, node, newDir)
           /\ MayFail(f)
           /\ store' = r.store
           /\ heap' = r.heap
           /\ DirectoryCache' = r.dc
           /\ last' = Called(RetMove(r.res, d, oldName, node, newDir, newName), r.calls)
           /\ made' = IF r.res # "ok" THEN made
                      ELSE Forget(Forget(made, heap[d].path, oldName), heap[newDir].path, newName)
           /\ renamed' = IF r.res = "ok" /\ ~heap[node].segmented
                         THEN [node |-> node,
                               obj |-> store[heap[d].path \o <<oldName>>],
                               back |-> Reverses(node, d, oldName, newDir, newName),
                               orig |-> IF Reverses(node, d, oldName, newDir, newName)
                                        THEN renamed.obj ELSE <<>>]
                         ELSE NoRename
    /\ fails' = Count(f)
    /\ UNCHANGED <<segs, ChangeCache, handles, rd, known, now, Encryption, ExtraAttr>>

----------------------------------------------------------------------------
\* The initial states: a mounted container that holds what other clients
\* left in it, no handle open, and either nothing listed yet or the root
\* listed and its children looked up.

File(body) == StoredObject(ObjContentType, body, NoHeader)
Marker == StoredObject(DirContentType, <<>>, NoHeader)
Link == StoredObject(LinkContentType, <<>>, NoHeader)
OldPrefix == <<"b", "/", "t">>
Manifest == StoredObject(ObjContentType, <<>>, <<SegmentsContainer, "/">> \o OldPrefix)
OldSegs == segmentPath(OldPrefix, 0) :> <<7>> @@ segmentPath(OldPrefix, 1) :> <<8>>

InitStores ==
    { [store |-> <<"a">> :> Marker @@ <<"b">> :> File(<<5>>), segs |-> EmptyMap],
      [store |-> <<"a">> :> File(<<9>>) @@ <<"a", "/", "b">> :> File(<<>>), segs |-> EmptyMap],
      [store |-> <<"a">> :> Marker @@ <<"a", "/", "b">> :> Link @@ <<"b">> :> Manifest,
       segs |-> OldSegs] }

HandleStores ==
    { [store |-> <<"a">> :> File(<<9>>) @@ <<"b">> :> Manifest, segs |-> OldSegs] }

Range(f) == {f[x] : x \in DOMAIN f}

InitWith(s, listed, budget, failures) ==
    LET r == ReadDirAllSync(<<RootNode>>, EmptyMap, EmptyMap, s.store, RootId, ExtraAttr,
                            TRUE, TRUE)
    IN  /\ store = s.store
        /\ segs = s.segs
        /\ heap = IF listed THEN r.heap ELSE <<RootNode>>
        /\ DirectoryCache = IF listed THEN r.dc ELSE EmptyMap
        /\ ChangeCache = EmptyMap
        /\ handles = <<>>
        /\ rd = [t \in Threads |-> IdleRd]
        /\ known = IF listed
                   THEN {RootId} \cup Range(r.dc[Key(DataContainer, <<>>)].children)
                   ELSE {RootId}
        /\ now = 0
        /\ fails = MaxFail - failures
        /\ last = Ret("none", "ok", Nil, "", Nil, Nil, <<>>, FALSE)
        /\ ops = budget
        /\ made = EmptyMap
        /\ renamed = NoRename

\* The directory operations, the backend answering every call.
Init ==
    /\ Encryption = FALSE
    /\ ExtraAttr \in BOOLEAN
    /\ \E s \in InitStores, listed \in BOOLEAN : InitWith(s, listed, MaxOps, 0)

Next ==
    \/ \E d \in Dirs, n \in Names, f \in 0..3 : Create(d, n, Flags("WO", FALSE, TRUE), f)
    \/ \E d \in Dirs, n \in Names, ok \in BOOLEAN : Mkdir(d, n, ok)
    \/ \E d \in Dirs, n \in Names, ok \in BOOLEAN : Symlink(d, n, ok)
    \/ \E d \in Dirs, n \in Names, ok \in BOOLEAN, eok \in BOOLEAN : Lookup(d, n, ok, eok)
    \/ \E t \in Threads, d \in Dirs, ok \in BOOLEAN : ReadDirFetch(t, d, ok)
    \/ \E t \in Threads : ReadDirFill(t)
    \/ \E t \in Threads, i \in 1..MaxNodes, ok \in BOOLEAN : ReadDirDrain(t, i, ok)
    \/ \E d \in Dirs, n \in Names, f \in 0..3 : Remove(d, n, f)
    \/ \E d \in Dirs, n \in Names, d2 \in known, n2 \in Names, f \in 0..2 : Rename(d, n, d2, n2, f)

Spec == Init /\ [][Next]_vars

\* The directory operations, the backend failing up to MaxFail calls.
InitFail ==
    /\ Encryption = FALSE
    /\ ExtraAttr \in BOOLEAN
    /\ \E s \in InitStores, listed \in BOOLEAN : InitWith(s, listed, MaxFailOps, MaxFail)

SpecFail == InitFail /\ [][Next]_vars

\* A manifest whose header names no container: "/t" and "cs" do not match
\* SegmentPathRegex.
BadManifest(h) == StoredObject(ObjContentType, <<>>, h)

ManifestStores ==
    { [store |-> <<"a">> :> BadManifest(<<"/", "t">>) @@ <<"b">> :> BadManifest(<<SegmentsContainer>>),
       segs |-> OldSegs] }

\* The directory operations over a container that holds malformed manifests,
\* the backend failing up to MaxFail calls.
InitManifest ==
    /\ Encryption = FALSE
    /\ ExtraAttr \in BOOLEAN
    /\ \E s \in ManifestStores, listed \in BOOLEAN : InitWith(s, listed, MaxFailOps, MaxFail)

SpecManifest == InitManifest /\ [][Next]_vars

\* The handles of the objects of the root: Create, Open, Write and Release,
\* the backend failing up to MaxFail calls.
InitHandle ==
    /\ Encryption \in BOOLEAN
    /\ ExtraAttr = FALSE
    /\ \E s \in HandleStores : InitWith(s, TRUE, MaxHandleOps, MaxFail)

\* The flags of the Open requests the model follows: read-only, write-only,
\* write-only with create or truncate.
OpenFlags == {Flags("RO", FALSE, FALSE), Flags("WO", FALSE, FALSE), Flags("WO", FALSE, TRUE)}

NextHandle ==
    \/ \E n \in Names, f \in 0..3 : Create(RootId, n, Flags("WO", FALSE, TRUE), f)
    \/ \E o \in Objects, fl \in OpenFlags, f \in 0..2 : Open(o, fl, f)
    \/ \E h \in 1..MaxHandles, len \in 1..MaxChunk, t \in 0..MaxClock, f \in 0..8 :
          WriteReq(h, len, t, f)
    \/ \E h \in 1..MaxHandles, f \in 0..2 : ReleaseReq(h, f)

SpecHandle == InitHandle /\ [][NextHandle]_vars

\* Listings of the root while handles of its objects are opened, written and
\* released, the backend answering every call.
InitChange ==
    /\ Encryption = FALSE
    /\ ExtraAttr \in BOOLEAN
    /\ \E s \in HandleStores : InitWith(s, FALSE, MaxHandleOps, 0)

\* The kernel sends a Create for a name only after a Lookup found no node.
Unnamed(d) == {n \in Names : CacheGet(DirectoryCache, heap[d].path, n) = Nil}

NextChange ==
    \/ \E n \in Unnamed(RootId), f \in 0..3 : Create(RootId, n, Flags("WO", FALSE, TRUE), f)
    \/ \E o \in Objects, fl \in OpenFlags, f \in 0..2 : Open(o, fl, f)
    \/ \E h \in 1..MaxHandles, len \in 1..MaxChunk, t \in 0..MaxClock, f \in 0..8 :
          WriteReq(h, len, t, f)
    \/ \E h \in 1..MaxHandles, f \in 0..2 : ReleaseReq(h, f)
    \/ \E t \in Threads, ok \in BOOLEAN : ReadDirFetch(t, RootId, ok)
    \/ \E t \in Threads : ReadDirFill(t)
    \/ \E t \in Threads, i \in 1..MaxNodes, ok \in BOOLEAN : ReadDirDrain(t, i, ok)

SpecChange == InitChange /\ [][NextChange]_vars

\* Listings whose entries the backend returns in any order, of containers
\* that hold markers, pseudo-directories and both under one name.
PermStores ==
    { [store |-> <<"a">> :> File(<<9>>) @@ <<"a", "/", "b">> :> File(<<>>), segs |-> EmptyMap],
      [store |-> <<"a">> :> Marker @@ <<"a", "/", "b">> :> File(<<>>) @@ <<"b">> :> File(<<5>>),
       segs |-> EmptyMap] }

InitOrder ==
    /\ Encryption = FALSE
    /\ ExtraAttr \in BOOLEAN
    /\ \E s \in PermStores, listed \in BOOLEAN : InitWith(s, listed, MaxOps, 0)

NextOrder ==
    \/ \E t \in Threads, d \in Dirs :
          \E p \in Orders(Len(ObjectsAll(store, heap[d].path))) : ReadDirFetchAny(t, d, p)
    \/ \E t \in Threads : ReadDirFill(t)
    \/ \E t \in Threads, i \in 1..MaxNodes, ok \in BOOLEAN : ReadDirDrain(t, i, ok)
    \/ \E d \in Dirs, n \in Names, ok \in BOOLEAN : Mkdir(d, n, ok)
    \/ \E d \in Dirs, n \in Names, ok \in BOOLEAN, eok \in BOOLEAN : Lookup(d, n, ok, eok)

SpecOrder == InitOrder /\ [][NextOrder]_vars

\* One ReadDirAll of the root, never listed, whose backend listing has
\* returned n manifests and, or not, a plain object.
Numbered(n) == [p \in {<<ToString(i)>> : i \in 1..n} |-> Manifest]

InitLister ==
    /\ Encryption = FALSE
    /\ ExtraAttr \in BOOLEAN
    /\ \E n \in 0..MaxTasks, plain \in BOOLEAN :
          /\ store = IF plain THEN Numbered(n) @@ <<"a">> :> File(<<9>>) ELSE Numbered(n)
          /\ rd = [t \in Threads |->
                     LoopRd(RootId, [i \in 1..n |-> ListEntry(store, <<>>, <<ToString(i)>>)]
                                        \o (IF plain THEN <<ListEntry(store, <<>>, <<"a">>)>>
                                            ELSE <<>>))]
    /\ segs = OldSegs
    /\ heap = <<RootNode>>
    /\ DirectoryCache = EmptyMap
    /\ ChangeCache = EmptyMap
    /\ handles = <<>>
    /\ known = {RootId}
    /\ now = 0
    /\ fails = 0
    /\ last = Ret("ObjectsAll", "ok", RootId, "", Nil, Nil, <<>>, TRUE)
    /\ ops = 0
    /\ made = EmptyMap
    /\ renamed = NoRename

NextLister ==
    \/ \E t \in Threads : ListerLoop(t)
    \/ \E t \in Threads : ListerLoopEnd(t)
    \/ \E t \in Threads, id \in 1..(MaxTasks + 2), ok \in BOOLEAN : ListerHead(t, id, ok)
    \/ \E t \in Threads, id \in 1..(MaxTasks + 2) : ListerPost(t, id)
    \/ \E t \in Threads : ListerReceive(t)
    \/ \E t \in Threads : ListerInstall(t)

\* The goroutines of the ReadDirAll and of the workers each run when they
\* can.
SpecLister == InitLister /\ [][NextLister]_vars /\ WF_vars(NextLister)

\* Object.Setattr with req.Valid.Size() (part_001:107-117) of size n; ok:
\* deleteSegments succeeds.
SetattrSize(o, n, ok) ==
    /\ Request
    /\ o \in Objects
    /\ LET h1 == [heap EXCEPT ![o].bytes = n]
           remove == n = 0 /\ heap[o].segmented
           rs == removeSegments(h1, segs, o, ok)
       IN  /\ ~remove => ok
           /\ MayFail(IF ok THEN 0 ELSE 1)
           /\ heap' = IF remove THEN rs.heap ELSE h1
           /\ segs' = IF remove THEN rs.segs ELSE segs
           /\ last' = Called(Ret("Setattr", IF ok THEN "ok" ELSE "err", Nil, "size", o, Nil,
                                 <<>>, FALSE),
                             IF remove THEN 1 ELSE 0)
    /\ fails' = Count(IF ok THEN 0 ELSE 1)
    /\ renamed' = NoRename
    /\ UNCHANGED <<store, DirectoryCache, ChangeCache, handles, rd, known, now, Encryption,
                   ExtraAttr, made>>

\* Object.Setattr with req.Valid.Mtime() only (part_001:119-135) on thread
\* t, up to its o.m.Lock(); same: req.Mtime is the time the node has, ok:
\* ObjectUpdate succeeds.  When the node is writing the request goes on in
\* SetattrLocked, once it has the mutex.
SetattrMtime(t, o, same, ok) ==
    /\ Request
    /\ o \in Objects
    /\ rd[t].pc = "idle"
    /\ LET wait == ExtraAttr /\ ~same /\ heap[o].writing
           update == ExtraAttr /\ ~same /\ ~heap[o].writing
       IN  /\ ~update => ok
           /\ MayFail(IF ok THEN 0 ELSE 1)
           /\ rd' = IF wait THEN [rd EXCEPT ![t] = [IdleRd EXCEPT !.pc = "lock", !.d = o]]
                     ELSE rd
           /\ last' = Called(Ret(IF wait THEN "Lock" ELSE "Setattr",
                                 IF ~ExtraAttr THEN "ENOTSUP" ELSE IF ok THEN "ok" ELSE "err",
                                 Nil, "mtime", o, Nil, <<>>, FALSE),
                             IF update THEN 1 ELSE 0)
    /\ fails' = Count(IF ok THEN 0 ELSE 1)
    /\ renamed' = NoRename
    /\ UNCHANGED <<store, segs, heap, DirectoryCache, ChangeCache, handles, known, now,
                   Encryption, ExtraAttr, made>>

\* The rest of that Setattr (part_001:126-132): it takes the mutex, which is
\* free, issues ObjectUpdate and unlocks on return.
SetattrLocked(t, ok) ==
    /\ Alive
    /\ UNCHANGED ops
    /\ rd[t].pc = "lock"
    /\ ~heap[rd[t].d].m
    /\ MayFail(IF ok THEN 0 ELSE 1)
    /\ rd' = [rd EXCEPT ![t] = IdleRd]
    /\ last' = Called(Ret("Setattr", IF ok THEN "ok" ELSE "err", Nil, "mtime", rd[t].d, Nil,
                          <<>>, FALSE), 1)
    /\ fails' = Count(IF ok THEN 0 ELSE 1)
    /\ renamed' = NoRename
    /\ UNCHANGED <<store, segs, heap, DirectoryCache, ChangeCache, handles, known, now,
                   Encryption, ExtraAttr, made>>

\* The handles of the objects of the root and Setattr of their size, the
\* backend failing up to MaxFail calls.
InitSize ==
    /\ Encryption = FALSE
    /\ ExtraAttr = FALSE
    /\ \E s \in HandleStores : InitWith(s, TRUE, MaxHandleOps, MaxFail)

NextSize ==
    \/ \E o \in Objects, fl \in OpenFlags, f \in 0..2 : Open(o, fl, f)
    \/ \E h \in 1..MaxHandles, len \in 1..MaxChunk, t \in 0..MaxClock, f \in 0..8 :
          WriteReq(h, len, t, f)
    \/ \E h \in 1..MaxHandles, f \in 0..2 : ReleaseReq(h, f)
    \/ \E o \in Objects, n \in 0..MaxChunk, ok \in BOOLEAN : SetattrSize(o, n, ok)

SpecSize == InitSize /\ [][NextSize]_vars

\* The handles of the objects of the root and Setattr of their mtime, the
\* backend answering every call.
InitMtime ==
    /\ Encryption = FALSE
    /\ ExtraAttr \in BOOLEAN
    /\ \E s \in HandleStores : InitWith(s, TRUE, MaxAttrOps, 0)

NextMtime ==
    \/ \E o \in Objects, fl \in OpenFlags, f \in 0..2 : Open(o, fl, f)
    \/ \E h \in 1..MaxHandles, len \in 1..MaxChunk, t \in 0..MaxClock, f \in 0..8 :
          WriteReq(h, len, t, f)
    \/ \E h \in 1..MaxHandles, f \in 0..2 : ReleaseReq(h, f)
    \/ \E t \in Threads, o \in Objects, same \in BOOLEAN, ok \in BOOLEAN :
          SetattrMtime(t, o, same, ok)
    \/ \E t \in Threads, ok \in BOOLEAN : SetattrLocked(t, ok)

SpecMtime == InitMtime /\ [][NextMtime]_vars

\* The requests the core rejects among the ones it serves: Opens of every
\* access mode with and without O_APPEND and O_CREAT, Removes and Renames of
\* directories, objects, symlinks and uncached names, the backend answering
\* every call.
InitReject ==
    /\ Encryption = FALSE
    /\ ExtraAttr = FALSE
    /\ \E s \in InitStores, listed \in BOOLEAN : InitWith(s, listed, MaxOps, 0)

AllFlags == {Flags(acc, append, create) :
                acc \in {"RO", "WO", "RW"}, append \in BOOLEAN, create \in BOOLEAN}

NextReject ==
    \/ \E o \in Objects, fl \in AllFlags, f \in 0..2 : Open(o, fl, f)
    \/ \E h \in 1..MaxHandles, f \in 0..2 : ReleaseReq(h, f)
    \/ \E d \in Dirs, n \in Names, ok \in BOOLEAN, eok \in BOOLEAN : Lookup(d, n, ok, eok)
    \/ \E d \in Dirs, n \in Names, f \in 0..3 : Remove(d, n, f)
    \/ \E d \in Dirs, n \in Names, d2 \in known, n2 \in Names, f \in 0..2 : Rename(d, n, d2, n2, f)

SpecReject == InitReject /\ [][NextReject]_vars

----------------------------------------------------------------------------
\* The handle properties.

\* The handle whose Release has just returned (Nil: the last request was not
\* a Release that returned).
Released ==
    IF last.op = "Release" /\ last.res \in {"ok", "err"} THEN last.h ELSE Nil

WriteHandles(o) ==
    {h \in 1..Len(handles) :
        handles[h].target = o /\ handles[h].acc = "WO" /\ ~handles[h].released}

\* C1: at any time at most one write-only handle of an Object is between its
\* returned Open and its Release, whatever Opens, Writes and Releases of
\* read-only and write-only handles were interleaved.
C1_OneWriteHandle ==
    \A o \in 1..Len(heap) : Cardinality(WriteHandles(o)) <= 1

\* C2: when the Release of a write-only handle has returned, with or without
\* an error, its target is not writing, the target's mutex is unlocked and
\* the change cache holds no registration for the target's path.
C2_ReleaseClears ==
    \A h \in 1..Len(handles) :
        (Released = h /\ handles[h].acc = "WO")
            => LET o == heap[handles[h].target]
               IN  /\ ~o.writing
                   /\ ~o.m
                   /\ ~ChangeExist(ChangeCache, o.path)

\* The segments a handle wrote, in increasing order of their ids, joined.
RECURSIVE Joined(_, _, _)
Joined(sg, prefix, id) ==
    LET part == IF Has(sg, segmentPath(prefix, id)) THEN sg[segmentPath(prefix, id)] ELSE <<>>
    IN  IF id = 0 THEN part ELSE Joined(sg, prefix, id - 1) \o part

\* C3: when a handle that Create returned is released after successful
\* Writes of B <= SegmentSize bytes in all, moveToSegment has not been run,
\* the target is not segmented and has no manifest header, the segments
\* container holds nothing new under the target's path (nothing but what the
\* mount found there and what other handles wrote), and the object at the
\* target's path holds the B bytes in the order written.
C3_SmallUpload ==
    \A h \in 1..Len(handles) :
        (Released = h /\ handles[h].by = "Create" /\ Len(handles[h].sent) <= SegmentSize)
            => LET fh == handles[h]
                   o == heap[fh.target]
               IN  /\ ~fh.moved
                   /\ ~o.segmented
                   /\ o.manifest = NoHeader
                   /\ \A p \in DOMAIN segs :
                         IsPrefix(o.path \o <<"/">>, p)
                             => \/ p \in DOMAIN OldSegs
                                \/ \E g \in 1..Len(handles) :
                                      /\ g # h
                                      /\ handles[g].moved
                                      /\ IsPrefix(handles[g].segmentPrefix \o <<"/">>, p)
                   /\ Has(store, o.path)
                   /\ store[o.path].manifest = NoHeader
                   /\ store[o.path].body = fh.sent

\* C4: when a write handle is released after successful Writes of
\* B > SegmentSize bytes in all, the target's path holds a manifest whose
\* header is <segments container>/<segmentPrefix>, the target is segmented,
\* the segments of ids 0..segmentID exist under the prefix, and joined in
\* increasing order of id they are the bytes written.
C4_SegmentedUpload ==
    \A h \in 1..Len(handles) :
        (Released = h /\ handles[h].acc = "WO" /\ Len(handles[h].sent) > SegmentSize)
            => LET fh == handles[h]
                   o == heap[fh.target]
                   header == <<SegmentsContainer, "/">> \o fh.segmentPrefix
               IN  /\ Has(store, o.path)
                   /\ store[o.path].manifest = header
                   /\ o.segmented
                   /\ o.manifest = header
                   /\ \A id \in 0..fh.segmentID : Has(segs, segmentPath(fh.segmentPrefix, id))
                   /\ Joined(segs, fh.segmentPrefix, fh.segmentID) = fh.sent

----------------------------------------------------------------------------
\* The directory properties.

\* The direntries the ReadDirAll that has just returned gave the kernel.
Returned == {last.entries[i] : i \in 1..Len(last.entries)}

\* The direntries of the children the cache holds under path.
CachedChildren(path) ==
    LET c == DirectoryCache[Key(DataContainer, path)].children
    IN  {Export(heap[c[n]]) : n \in DOMAIN c}

\* C5: when a ReadDirAll of D has returned without error, from the cache or
\* from a fresh listing, the children the directory cache holds under D's
\* path are the same set of (name, type) entries as the direntries returned.
C5_CacheHoldsReturned ==
    (last.op = "ReadDirAll" /\ last.res = "ok")
        => /\ CachePeek(DirectoryCache, heap[last.d].path)
           /\ CachedChildren(heap[last.d].path) = Returned

\* The direntries the listing algorithm (part_000:125-217) computes from the
\* backend's current content under d's path.
Listing(d) ==
    LET acc == Fill(heap, heap[d], ObjectsAll(store, heap[d].path), ChangeCache, ExtraAttr)
        r == DrainAll([IdleRd EXCEPT !.d = d, !.direntries = acc.direntries,
                                     !.children = acc.children, !.tasks = acc.tasks],
                      acc.heap, store, TRUE)
    IN  r.r.direntries

DistinctNames(es) == \A i, j \in 1..Len(es) : es[i].name = es[j].name => i = j

\* C6: a ReadDirAll of D returns exactly the children the listing algorithm
\* computes from the backend's current content under D's path.  Stated for
\* the listings in which no two entries share a name, where C5's case does
\* not arise.
C6_ReturnsListing ==
    (last.op = "ReadDirAll" /\ last.res = "ok" /\ DistinctNames(Listing(last.d)))
        => Returned = {Listing(last.d)[i] : i \in 1..Len(Listing(last.d))}

\* The Lookup that has just returned was of a name Mkdir made in that
\* directory, and nothing removed or replaced the name since.
LookupOfMade ==
    /\ last.op = "Lookup"
    /\ Has(made, <<heap[last.d].path, last.name>>)

\* The Lookup that has just returned found a Directory at D.path + name + "/"
\* and called no backend listing.
FoundDirectory ==
    /\ last.res = "ok"
    /\ heap[last.node].kind = "dir"
    /\ heap[last.node].path = heap[last.d].path \o <<last.name, "/">>
    /\ ~last.listed

\* C7 (as stated): after a successful Mkdir(name) in D, a Lookup(name) in D
\* returns a Directory of path D.path + name + "/" without a backend listing,
\* whatever was interleaved that did not remove the name, a ReadDirAll of D
\* installing a listing fetched before the Mkdir included.  Stated for the
\* names that were new to the container, the ones the kernel sends a Mkdir
\* for.
C7_LookupAfterMkdir ==
    (LookupOfMade /\ made[<<heap[last.d].path, last.name>>].fresh) => FoundDirectory

\* C7 (amended): the same, when no ReadDirAll of D installed its listing
\* between the Mkdir and the Lookup.
C7_LookupAfterMkdirNoInstall ==
    (LookupOfMade /\ ~made[<<heap[last.d].path, last.name>>].installed) => FoundDirectory

\* A Lookup of a made name returned while a ReadDirAll of the same directory,
\* begun before the Mkdir, had not yet installed its listing.
C7_Witness ==
    /\ LookupOfMade
    /\ ~made[<<heap[last.d].path, last.name>>].installed
    /\ FoundDirectory
    /\ \E t \in Threads : rd[t].pc # "idle" /\ heap[rd[t].d].path = heap[last.d].path

\* C8: when a Rename of a plain object from (dir, oldName) to (newDir,
\* newName) has succeeded, the cache has no child oldName under dir, has the
\* node as child newName under newDir, and the node's name and path are
\* newName and newDir.path + newName; when the Rename reversed the Rename
\* before it, the backend object at the path is the one the first Rename
\* moved away, content and headers.
C8_RenamePlain ==
    (last.op = "Rename" /\ last.res = "ok" /\ renamed.node # Nil)
        => LET o == renamed.node
               from == heap[last.d].path
               to == heap[last.d2].path
           IN  /\ CacheGet(DirectoryCache, from, last.name) = Nil
               /\ CacheGet(DirectoryCache, to, last.name2) = o
               /\ heap[o].name = last.name2
               /\ heap[o].path = to \o <<last.name2>>
               /\ ~Has(store, from \o <<last.name>>)
               /\ renamed.back => /\ Has(store, heap[o].path)
                                  /\ store[heap[o].path] = renamed.orig

\* A Rename of a plain object has reversed the Rename before it, between two
\* directories.
C8_Witness ==
    /\ last.op = "Rename"
    /\ last.res = "ok"
    /\ renamed.node # Nil
    /\ renamed.back
    /\ heap[last.d].path # heap[last.d2].path
    /\ renamed.orig.body # <<>>

\* C9: when a Remove of a segmented object has returned without error, no
\* segment remains under the manifest's prefix, the manifest is gone from the
\* data container and the parent's cache has no child of that name; when it
\* has returned an error, the manifest and the cache entry are in place.
C9_RemoveSegmented ==
    (last.op = "Remove" /\ last.node # Nil /\ heap[last.node].kind = "obj"
        /\ heap[last.node].segmented)
        => LET o == heap[last.node]
               path == heap[last.d].path \o <<last.name>>
           IN  /\ last.res = "ok" =>
                     /\ SegmentsUnder(segs, HeaderPrefix(o.manifest)) = {}
                     /\ ~Has(store, path)
                     /\ CacheGet(DirectoryCache, heap[last.d].path, last.name) = Nil
               /\ last.res = "err" =>
                     /\ Has(store, path)
                     /\ CacheGet(DirectoryCache, heap[last.d].path, last.name) = last.node

\* C10: a Create, Mkdir, Symlink, Remove or Rename one of whose backend calls
\* fails leaves the directory cache exactly as it was.
C10_FailureKeepsCache ==
    [][(fails' = fails + 1 /\ last'.op \in {"Create", "Mkdir", "Symlink", "Remove", "Rename"})
          => DirectoryCache' = DirectoryCache]_vars

\* The Remove that has just returned an error was of the segmented object
\* whose manifest header is h.
RemovedMalformed(h) ==
    /\ last.op = "Remove"
    /\ last.node # Nil
    /\ heap[last.node].kind = "obj"
    /\ heap[last.node].segmented
    /\ Has(store, heap[last.d].path \o <<last.name>>)
    /\ store[heap[last.d].path \o <<last.name>>].manifest = h

\* C11: a Remove of a segmented object whose manifest header does not match
\* SegmentPathRegex returns an error and changes nothing: the segments, the
\* data container with the manifest and the directory cache, which still
\* holds the object under its name, are as they were.
C11_MalformedManifest ==
    [][(/\ last'.op = "Remove"
        /\ last'.node # Nil
        /\ heap[last'.node].kind = "obj"
        /\ heap[last'.node].segmented
        /\ Has(store, heap[last'.d].path \o <<last'.name>>)
        /\ ~SegmentPathRegexMatch(store[heap[last'.d].path \o <<last'.name>>].manifest))
          => /\ last'.res = "err"
             /\ segs' = segs
             /\ store' = store
             /\ DirectoryCache' = DirectoryCache
             /\ CacheGet(DirectoryCache', heap[last'.d].path, last'.name) = last'.node]_vars

\* Such a Remove has returned its error with every backend call answered,
\* while the segments container holds segments the header's prefix covers.
C11_Witness ==
    /\ RemovedMalformed(<<SegmentsContainer>>)
    /\ last.res = "err"
    /\ fails = 0
    /\ SegmentsUnder(segs, HeaderPrefix(<<SegmentsContainer>>)) # {}

\* C12: an Open with O_APPEND or in read-write mode, a Rename into a node
\* that is not a Directory, a Rename of a name whose cached node is not an
\* Object and a Remove of a name whose cached node is neither a Directory
\* nor an Object return ENOTSUP (no handle is ever returned for the first
\* two, nothing else is ever returned for the others), and a request that
\* returns ENOTSUP has issued no backend call, locked no mutex, and left
\* the containers, the change cache, the directory cache, the nodes and the
\* handles as they were.
C12_RejectedIsNoOp ==
    [][/\ \A h \in 1..Len(handles') : ~handles'[h].append /\ handles'[h].acc # "RW"
       /\ (last'.op = "Open" /\ last'.res # "ENOTSUP" /\ last'.h = Nil)
             => last'.calls > 0
       /\ (last'.op = "Rename" /\ last'.res # "ENOTSUP")
             => /\ heap[last'.d2].kind = "dir"
                /\ last'.node # Nil
                /\ heap[last'.node].kind = "obj"
       /\ (last'.op = "Remove" /\ last'.res # "ENOTSUP")
             => /\ last'.node # Nil
                /\ heap[last'.node].kind \in {"dir", "obj"}
       /\ last'.res = "ENOTSUP"
             => /\ last'.calls = 0
                /\ UNCHANGED <<store, segs, heap, ChangeCache, DirectoryCache, handles, fails>>]_vars

\* An Open has been rejected while a write handle holds the object's mutex
\* and its path is in the change cache.
C12_Witness ==
    /\ last.op = "Open"
    /\ last.res = "ENOTSUP"
    /\ \E h \in 1..Len(handles) :
          /\ handles[h].acc = "WO"
          /\ ~handles[h].released
          /\ heap[handles[h].target].m
          /\ ChangeExist(ChangeCache, heap[handles[h].target].path)

\* The child the loop of a ReadDirAll on thread t has chosen for name, in the
\* loop's children or, when it had nothing to wait for, in the cache entry
\* it installed (Nil: none yet).
Chosen(t, path, name) ==
    IF rd'[t].pc = "idle" THEN CacheGet(DirectoryCache', path, name)
    ELSE IF Has(rd'[t].children, name) THEN rd'[t].children[name]
    ELSE Nil

Listed(objects, path) == \E i \in 1..Len(objects) : objects[i].name = path

\* C13: when the loop of a ReadDirAll that lists O's parent afresh runs
\* while a write-only handle on O is open, O being the child the parent's
\* cache holds for its name, the child the loop takes for O's name is O
\* itself, never a node newly built for the path, read-only handles on O
\* having been opened and released in the meantime or not.
C13_WriterKept ==
    [][\A t \in Threads :
          (rd[t].pc = "fetched" /\ rd'[t].pc # "fetched")
              => \A h \in 1..Len(handles) :
                    (/\ handles[h].acc = "WO"
                     /\ ~handles[h].released
                     /\ heap[handles[h].target].path
                            = heap[rd[t].d].path \o <<heap[handles[h].target].name>>
                     /\ CacheGet(DirectoryCache, heap[rd[t].d].path,
                                 heap[handles[h].target].name) = handles[h].target
                     /\ Listed(rd[t].objects, heap[handles[h].target].path))
                        => Chosen(t, heap[rd[t].d].path, heap[handles[h].target].name)
                              = handles[h].target]_vars

\* The short name of the listing entry o under the directory path p.
Short(o, p) == ShortName(TrimSuffixSlash(TrimPrefix(o.name, p)))

\* In the listing every pseudo-directory entry comes after the real marker
\* of its short name, when there is one.
MarkerFirst(objects, p) ==
    \A i, j \in 1..Len(objects) :
        (/\ isDirectory(objects[i], p)
         /\ isPseudoDirectory(objects[j], p)
         /\ Short(objects[i], p) = Short(objects[j], p)) => i < j

\* What a ReadDirAll of the listing objects under path p returned (entries)
\* and installed: one directory direntry per short name at most, and for
\* every real marker the node built from it as the cached child.
OneDirectoryPerName(objects, p, entries, dc, hp) ==
    /\ \A i, j \in 1..Len(entries) :
          (entries[i].type = "DT_Dir" /\ entries[j].type = "DT_Dir"
              /\ entries[i].name = entries[j].name) => i = j
    /\ \A i \in 1..Len(objects) :
          isDirectory(objects[i], p)
              => LET c == CacheGet(dc, p, Short(objects[i], p))
                 IN  /\ c # Nil
                     /\ hp[c].kind = "dir"
                     /\ hp[c].soName = objects[i].name

C15_Terminates == <>(\A t \in Threads : rd[t].pc = "returned")

\* The segments the handle fh wrote: the ones under its segmentPrefix.
SegmentsOf(fh) == SegmentsUnder(segs, fh.segmentPrefix \o <<"/">>)

\* C16: when a write handle is released after successful Writes of
\* B > SegmentSize bytes in all, in chunks of any sizes, no backend call
\* having failed, the handle has produced ceil(B / SegmentSize) segments,
\* none of them empty and none of more than SegmentSize bytes.
C16_SegmentCount ==
    \A h \in 1..Len(handles) :
        (/\ Released = h
         /\ last.res = "ok"
         /\ fails = 0
         /\ handles[h].acc = "WO"
         /\ Len(handles[h].sent) > SegmentSize)
            => /\ handles[h].moved
               /\ Cardinality(SegmentsOf(handles[h]))
                     = (Len(handles[h].sent) + SegmentSize - 1) \div SegmentSize
               /\ \A q \in SegmentsOf(handles[h]) :
                     Len(segs[q]) > 0 /\ Len(segs[q]) <= SegmentSize

\* The Write that returns in this step is on a write-only handle that Open
\* returned without create.
WriteOnOpened ==
    /\ last'.op = "Write"
    /\ handles[last'.h].by = "Open"
    /\ handles[last'.h].acc = "WO"
    /\ ~handles[last'.h].create

\* C17: on a write-only handle opened without create, a Write that appends
\* data leaves the handle truncated with a writer; the first one to do so
\* has run a truncate that succeeded: the segments under the target's
\* manifest header are deleted if the target was segmented, the header is
\* cleared, and the reported size counts from 0; a Write on a handle that
\* has truncated does not truncate again (no segment is deleted, the size
\* goes on from where it was, the data goes to the writer the handle had)
\* and, if the handle has no writer, appends nothing.
C17_TruncateOnce ==
    [][WriteOnOpened =>
          LET h == last'.h
              o == heap[handles[h].target]
              len == handles'[h].asked - handles[h].asked
              appended == handles'[h].sent # handles[h].sent
          IN  /\ appended
                    => /\ last'.res = "ok"
                       /\ handles'[h].truncated
                       /\ ~handles'[h].wd.nil
              /\ (appended /\ ~handles[h].truncated)
                    => /\ o.segmented => SegmentsUnder(segs', HeaderPrefix(o.manifest)) = {}
                       /\ o.manifest # NoHeader => heap'[handles[h].target].manifest # o.manifest
                       /\ heap'[handles[h].target].bytes = len
                       /\ Len(handles'[h].wd.buf) = len
              /\ handles[h].truncated
                    => /\ DOMAIN segs \subseteq DOMAIN segs'
                       /\ handles'[h].truncated
                       /\ appended => heap'[handles[h].target].bytes = o.bytes + len
                       /\ (appended /\ FitsSegment(handles[h].uploaded, len))
                             => handles'[h].wd.buf = handles[h].wd.buf \o
                                                       SubSeq(handles'[h].sent,
                                                              Len(handles[h].sent) + 1,
                                                              Len(handles'[h].sent))
                       /\ handles[h].wd.nil => ~appended /\ last'.res # "ok"]_vars

\* The Setattr that returns in this step set the size of an object and had
\* no segment to remove: the size is positive or the node is not segmented.
SetattrSizeOnly ==
    /\ last'.op = "Setattr"
    /\ last'.name = "size"
    /\ last' # last
    /\ heap'[last'.node].bytes > 0 \/ ~heap[last'.node].segmented

\* The Write that returns ok in this step follows, as the next request, such
\* a Setattr on the target of its handle.
WriteAfterSetattr ==
    /\ last.op = "Setattr"
    /\ last.name = "size"
    /\ last.res = "ok"
    /\ last.calls = 0
    /\ last'.op = "Write"
    /\ last'.res = "ok"
    /\ handles[last'.h].target = last.node

\* C18: a Setattr of the size to N, with N > 0 or on a node that is not
\* segmented, only sets the size the node reports to N and issues no backend
\* call, and the next Write resets it: after a successful Write on any open
\* write handle of the object the reported size is the number of bytes
\* written through that handle so far.
C18_WriteResetsSize ==
    [][/\ SetattrSizeOnly
          => /\ last'.res = "ok"
             /\ last'.calls = 0
             /\ store' = store
             /\ segs' = segs
             /\ \E n \in 0..MaxChunk : heap' = [heap EXCEPT ![last'.node].bytes = n]
       /\ WriteAfterSetattr
          => heap'[last.node].bytes = Len(handles'[last'.h].sent)]_vars

\* The Setattr of thread t, which found its node writing and waited for the
\* mutex, issues its ObjectUpdate in this step.
SetattrUpdates(t) == rd[t].pc = "lock" /\ rd'[t].pc = "idle"

\* Handle h of node o has written data and has not been released.
WritingHandle(o, h) ==
    /\ handles[h].target = o
    /\ handles[h].sent # <<>>
    /\ ~handles[h].released

\* C19: with ExtraAttr, a Setattr of the mtime of an object that arrives
\* while a write handle has written data on it serializes on the mutex of
\* the object: its ObjectUpdate is issued only after the Release of that
\* handle, never between its Writes.
C19_UpdateAfterRelease ==
    [][\A t \in Threads :
          SetattrUpdates(t) => \A h \in 1..Len(handles) : ~WritingHandle(rd[t].d, h)]_vars

\* A backend call of the Write that returns in this step has failed.
WriteFailure == last'.op = "Write" /\ fails' # fails

\* The manifest of node o is in the container.
ManifestCreated(st, o) == Has(st, o.path) /\ st[o.path].manifest # NoHeader

\* C20: every backend failure inside a Write is reported: the Write returns
\* an error, its bytes are not reported as written, and the target is not
\* marked segmented, nor the handle as having written a segment, unless the
\* manifest was created.
C20_FailureReported ==
    [][WriteFailure =>
          LET h == last'.h
              o == handles[h].target
          IN  /\ last'.res # "ok"
              /\ handles'[h].sent = handles[h].sent
              /\ (heap'[o].segmented /\ ~heap[o].segmented) => ManifestCreated(store', heap'[o])
              /\ (handles'[h].wroteSegment /\ ~handles[h].wroteSegment)
                    => ManifestCreated(store', heap'[o])]_vars

\* The Open or Create that returns in this step returns the error of a
\* backend call of Object.open on node o: of Open's node, or of the node
\* Create has built.
FailedOpen(o) ==
    /\ fails' # fails
    /\ last'.res = "err"
    /\ \/ last'.op = "Open" /\ o = last'.node
       \/ last'.op = "Create" /\ Len(heap') > Len(heap) /\ o = Len(heap')

\* C21: a write-only Open or a Create that returns an error (the removal of
\* the segments or the creation of the writer failed) leaves no trace: the
\* mutex of the object is not left locked and its path is not left in the
\* change cache.
C21_FailedOpenLeavesNoTrace ==
    [][\A o \in 1..Len(heap') :
          FailedOpen(o) => /\ ~heap'[o].m
                           /\ ~ChangeExist(ChangeCache', heap'[o].path)]_vars

====
